---------------------------- MODULE Spec2Model ----------------------------
(***************************************************************************)
(* A model of the e-paper calendar pipeline:                               *)
(*   - calendar_server.py: event fetching and de-duplication, the event    *)
(*     fingerprint, the screenshot cache behind /image and /image/hash;    *)
(*   - calendar_sync_service.py: the polling loop that downloads the       *)
(*     rendered image and uploads it to the receiver;                      *)
(*   - image_receiver_server.py: the manual-trigger flag and the sync      *)
(*     status the loop reports to;                                         *)
(*   - display_image.py: the rotation and scaling of an image for the      *)
(*     panel.                                                              *)
(*                                                                         *)
(* Conventions.  Python's None is the empty tuple <<>> and a value that    *)
(* may be None is the one-element tuple Some(x).  A sha256 digest is       *)
(* modelled as injective: Sha(x) is the pair <<"sha256", x>>, so a digest  *)
(* is never None and two digests are equal exactly when their preimages    *)
(* are.  Strings that are compared for order (titles) are tuples of code   *)
(* points; ISO dates, which the code only compares, are small naturals in  *)
(* the same order.                                                         *)
(***************************************************************************)
EXTENDS Naturals, Integers, Sequences, FiniteSets, TLC

None == <<>>

Some(x) == <<x>>

Sha(x) == <<"sha256", x>>

\* ------------------------------------------------------------------------
\* Strings as tuples of code points
\* ------------------------------------------------------------------------

\* Code points used by the model's titles: "A", "a", "b" and the blank.
IsUpper(c) == c >= 65 /\ c <= 90

IsSpace(c) == c = 32 \/ (c >= 9 /\ c <= 13)

\* str.lower()
Lower(s) == [i \in 1..Len(s) |-> IF IsUpper(s[i]) THEN s[i] + 32 ELSE s[i]]

RECURSIVE LStrip(_)
LStrip(s) == IF s # <<>> /\ IsSpace(Head(s)) THEN LStrip(Tail(s)) ELSE s

RECURSIVE RStrip(_)
RStrip(s) ==
    IF s # <<>> /\ IsSpace(s[Len(s)]) THEN RStrip(SubSeq(s, 1, Len(s) - 1)) ELSE s

\* str.strip()
Strip(s) == RStrip(LStrip(s))

\* Python's < on str: lexicographic on code points, a proper prefix is smaller.
RECURSIVE StrLess(_, _)
StrLess(s, t) ==
    IF t = <<>> THEN FALSE
    ELSE IF s = <<>> THEN TRUE
    ELSE IF Head(s) # Head(t) THEN Head(s) < Head(t)
    ELSE StrLess(Tail(s), Tail(t))

\* ------------------------------------------------------------------------
\* calendar_server.py: compute_events_hash
\* ------------------------------------------------------------------------

\* The sort key of compute_events_hash: (start, title), compared as a tuple.
SortKeyLess(a, b) ==
    \/ a.start < b.start
    \/ a.start = b.start /\ StrLess(a.title, b.title)

\* One step of Python's stable sort: x, the next element of the input, goes
\* after every element already placed whose key is not greater than x's.
RECURSIVE InsertByKey(_, _)
InsertByKey(x, s) ==
    IF s = <<>> THEN <<x>>
    ELSE IF SortKeyLess(x, Head(s)) THEN <<x>> \o s
    ELSE <<Head(s)>> \o InsertByKey(x, Tail(s))

\* sorted(events, key=lambda e: (e.get('start', ''), e.get('title', '')))
RECURSIVE SortedByKey(_)
SortedByKey(events) ==
    IF events = <<>> THEN <<>>
    ELSE InsertByKey(events[Len(events)],
                     SortedByKey(SubSeq(events, 1, Len(events) - 1)))

\* The dictionary appended to events_data for one event.
HashedFields_WithColor(e) ==
    [title |-> e.title, start |-> e.start, end |-> e.end,
     description |-> e.description, location |-> e.location,
     calendarId |-> e.calendarId, backgroundColor |-> e.backgroundColor]

HashedFields(e) ==
    [title |-> e.title, start |-> e.start, end |-> e.end,
     description |-> e.description, location |-> e.location,
     calendarId |-> e.calendarId]

\* events_data: the hashed fields of the events in sorted order.  json.dumps
\* with sort_keys is injective on this list.
EventsData(events) ==
    LET sorted == SortedByKey(events)
    IN  [i \in 1..Len(sorted) |-> HashedFields(sorted[i])]

compute_events_hash(events) == Sha(EventsData(events))

\* ------------------------------------------------------------------------
\* calendar_server.py: fetch_calendar_events
\* ------------------------------------------------------------------------

\* The colour given to a calendar: an entry of default_palette, fixed per
\* calendar id.
CalendarColor(calendar_id) ==
    IF calendar_id = "A" THEN "#1E90FF" ELSE "#e60000"

\* Conversion of one Google item of calendar calendar_id to FullCalendar format.
CalendarEvent(item, calendar_id) ==
    [title |-> item.summary, start |-> item.start, end |-> item.end,
     backgroundColor |-> CalendarColor(calendar_id),
     borderColor |-> CalendarColor(calendar_id),
     description |-> item.description, location |-> item.location,
     calendarId |-> calendar_id]

\* all_events: the items of every calendar, in the order of calendar_ids.
RECURSIVE AllEvents(_)
AllEvents(calendars) ==
    IF calendars = <<>> THEN <<>>
    ELSE LET c == Head(calendars)
         IN  [i \in 1..Len(c.items) |-> CalendarEvent(c.items[i], c.id)]
             \o AllEvents(Tail(calendars))

\* The de-duplication key: (title.strip().lower(), start, end).
EventKey(e) == <<Lower(Strip(e.title)), e.start, e.end>>

\* The de-duplication loop: an event is kept unless an earlier one has its key.
RECURSIVE Deduplicate(_)
Deduplicate(events) ==
    IF events = <<>> THEN <<>>
    ELSE LET n == Len(events)
             before == Deduplicate(SubSeq(events, 1, n - 1))
         IN  IF \E i \in 1..Len(before) : EventKey(before[i]) = EventKey(events[n])
             THEN before
             ELSE Append(before, events[n])

\* deduplicated_events.sort(key=lambda e: e['start']): stable, by start alone.
RECURSIVE InsertByStart(_, _)
InsertByStart(x, s) ==
    IF s = <<>> THEN <<x>>
    ELSE IF x.start < Head(s).start THEN <<x>> \o s
    ELSE <<Head(s)>> \o InsertByStart(x, Tail(s))

RECURSIVE SortedByStart(_)
SortedByStart(events) ==
    IF events = <<>> THEN <<>>
    ELSE InsertByStart(events[Len(events)],
                       SortedByStart(SubSeq(events, 1, Len(events) - 1)))

\* The events fetch_calendar_events returns when every request succeeds.
fetch_calendar_events(calendars) == SortedByStart(Deduplicate(AllEvents(calendars)))

\* ------------------------------------------------------------------------
\* State
\* ------------------------------------------------------------------------

VARIABLES
    \* calendar_sync_service.py, main()
    pc,                    \* the statement the sync service is about to run
    caller,                \* which call of refresh_display is running
    last_hash,             \* main's last_hash
    new_hash,              \* main's new_hash
    temp_file,             \* the content of temp_path: None or the image
    \* calendar_server.py
    screenshot_cache,      \* [path, hash, events_hash]
    calendar_view,         \* settings['calendar_view'], which selects the page
    \* Google Calendar, as fetch_calendar_events sees it
    gcal,
    \* image_receiver_server.py
    manual_sync_trigger,   \* _manual_sync_trigger
    calendar_sync_status,  \* _calendar_sync_status: fetching, uploading, last_error
    status_up,             \* whether requests to /calendar_sync/status get through
    \* observation of the run
    tick,                  \* what the current loop iteration has done so far
    prev,                  \* what the iteration before it did
    last_render,           \* the outcome of the last /image or /image/hash request
    \* the fingerprint functions applied to inputs
    calendars_in,          \* the calendars fetch_calendar_events reads
    events_in,             \* the events it returns for them
    hash_in,               \* compute_events_hash of events_in
    op,                    \* how the second input was derived from the first
    calendars_out,         \* the calendars of the second fetch, if any
    events_out,            \* the second input of compute_events_hash
    hash_out,              \* compute_events_hash of events_out
    \* calendar_server.py: concurrent requests
    cache_lock,            \* screenshot_cache['lock']: None or its holder
    requests,              \* the requests to /image and /image/hash in flight
    settings_file,         \* the content of settings.json
    settings_lock,         \* settings_lock: None or its holder
    posts,                 \* the POSTs to /api/settings in flight
    \* display_image.py, display_image()
    display_pc,            \* the statement display_image is about to run
    epd_size,              \* (epd13in3E.EPD_WIDTH, epd13in3E.EPD_HEIGHT)
    image_size,            \* the size of the image in the file
    args,                  \* the arguments of the call
    Himage,                \* Himage.size
    zoom_to_fit,           \* the local zoom_to_fit
    image_was_rotated,     \* the local image_was_rotated
    rotation_angle,        \* the angle the rotation mode applied, 0 if none
    new_size,              \* (new_width, new_height), None if not scaled
    painted,               \* the size of the image handed to epd.display
    returned,              \* what display_image returned
    \* calendar_server.py, generate_calendar_screenshot()
    crop_pc,               \* the statement generate_calendar_screenshot is about to run
    req_size,              \* (width, height), the size asked for
    shot,                  \* the image in the file at screenshot_path
    img,                   \* img, the image being processed
    detected,              \* last_content_row, bottom_crop and top_crop
    redetected,            \* the same, computed anew on the cropped image
    shot_result,           \* what generate_calendar_screenshot returned
    \* image_receiver_server.py, upload_image() and the operating mode
    upload_pc,             \* the statement upload_image is about to run
    config_mode,           \* config.json: the value of 'mode'
    sync_process,          \* whether _calendar_sync_process is running
    upload_request,        \* the POST /upload being handled: sender and header
    current_mode,          \* the local current_mode
    mode_switched,         \* the local mode_switched
    upload_status,         \* the status code of the last response to an upload
    uploads,               \* the number of uploads handled so far
    \* image_receiver_server.py: the sync subprocess and /mode/switch
    proc_handle,           \* _calendar_sync_process: None or the process
    procs,                 \* what became of each process the receiver can start
    switches,              \* the POSTs to /mode/switch in flight
    autostart,             \* the thread start_sync_delayed of the start-up
    trigger_status,        \* the status code of the last /calendar_sync/trigger
    \* display_image.py: the calls made to the panel's driver
    epd_pc,                \* the statement display_image is about to run
    epd_calls,             \* the calls of this run, each with how it ended
    epd_returned,          \* what the run returned
    epd_runs,              \* the runs begun so far
    panel,                 \* what the panel shows and whether it sleeps
    \* calendar_server.py: log_buffer
    log_max_size,          \* LogBuffer.max_size
    logs,                  \* LogBuffer.logs
    log_next,              \* the number of add_log calls so far
    log_result,            \* what the last get_logs returned
    log_limit              \* the limit it was called with

sync_vars == <<pc, caller, last_hash, new_hash, temp_file>>

server_vars == <<screenshot_cache, calendar_view, gcal>>

receiver_vars == <<manual_sync_trigger, calendar_sync_status, status_up>>

obs_vars == <<tick, prev, last_render>>

hash_vars == <<calendars_in, events_in, hash_in, op, calendars_out, events_out,
               hash_out>>

lock_vars == <<cache_lock, requests>>

settings_vars == <<settings_file, settings_lock, posts>>

display_vars == <<display_pc, epd_size, image_size, args, Himage, zoom_to_fit,
                  image_was_rotated, rotation_angle, new_size, painted, returned>>

crop_vars == <<crop_pc, req_size, shot, img, detected, redetected, shot_result>>

mode_vars == <<upload_pc, config_mode, sync_process, upload_request, current_mode,
               mode_switched, upload_status, uploads>>

switch_vars == <<proc_handle, procs, switches, autostart, trigger_status>>

epd_vars == <<epd_pc, epd_calls, epd_returned, epd_runs, panel>>

log_vars == <<log_max_size, logs, log_next, log_result, log_limit>>

rest_vars == <<switch_vars, epd_vars, log_vars>>

more_vars == <<lock_vars, settings_vars, display_vars, crop_vars, mode_vars,
               rest_vars>>

vars == <<sync_vars, server_vars, receiver_vars, obs_vars, hash_vars, more_vars>>

\* ------------------------------------------------------------------------
\* The environment of the running system
\* ------------------------------------------------------------------------

ItemX == [summary |-> <<97>>, start |-> 1, end |-> 2,
          description |-> "", location |-> ""]

\* The contents Google Calendar can have: one configured calendar holding no
\* event or one.
GoogleStates ==
    { <<[id |-> "A", items |-> <<>>]>>,
      <<[id |-> "A", items |-> <<ItemX>>]>> }

\* calendar_view takes these values (SETTINGS_DEFAULTS).
CalendarViews == {"fullcalendar", "grid"}

\* The names tempfile can give a new screenshot.
TempNames == {"shot1.png", "shot2.png"}

\* ------------------------------------------------------------------------
\* calendar_server.py: the screenshot cache, /image and /image/hash
\* ------------------------------------------------------------------------

\* The page chromium captures: index() renders the template calendar_view
\* selects, and the page loads the events of /api/events.
Page(events, view) == [events |-> events, view |-> view]

\* A name tempfile.NamedTemporaryFile has not handed to the cache.
FreshPath(cache) == CHOOSE p \in TempNames : Some(p) # cache.path

\* generate_calendar_screenshot when the capture succeeds: (path, image_hash).
generate_calendar_screenshot(cache, calendars, view) ==
    LET image == Page(fetch_calendar_events(calendars), view)
    IN  [path |-> Some(FreshPath(cache)), image |-> image, image_hash |-> Sha(image)]

\* GET /image.  capture: whether chromium produced a screenshot; google: "ok",
\* "service_error" (no calendar service) or "fetch_error".  The result is the
\* cache after the request and the response.
get_calendar_image(cache, calendars, view, capture, google) ==
    IF ~capture
    THEN [cache |-> cache, status |-> 500, body |-> None, rendered |-> "failed"]
    ELSE LET result == generate_calendar_screenshot(cache, calendars, view)
             events == IF google = "ok" THEN fetch_calendar_events(calendars)
                       ELSE <<>>
         IN  [cache |-> [path |-> result.path,
                         hash |-> result.image_hash,
                         events_hash |-> IF events # <<>>
                                         THEN compute_events_hash(events)
                                         ELSE cache.events_hash],
              status |-> 200, body |-> Some(result.image), rendered |-> "ok"]

\* The response of /image/hash that falls back on the cache.
CachedHashResponse(cache, rendered) ==
    IF cache.hash # None
    THEN [cache |-> cache, status |-> 200, body |-> cache.hash, rendered |-> rendered]
    ELSE [cache |-> cache, status |-> 500, body |-> None, rendered |-> rendered]

\* GET /image/hash.
get_calendar_image_hash_EarlyEventsHash(cache, calendars, view, capture, google) ==
    IF google # "ok" THEN CachedHashResponse(cache, "no")
    ELSE LET current_events_hash ==
                 compute_events_hash(fetch_calendar_events(calendars))
         IN  IF cache.events_hash = current_events_hash /\ cache.hash # None
             THEN CachedHashResponse(cache, "no")
             ELSE IF ~capture
             THEN CachedHashResponse(
                      [cache EXCEPT !.events_hash = current_events_hash], "failed")
             ELSE LET result == generate_calendar_screenshot(cache, calendars, view)
                  IN  [cache |-> [path |-> result.path,
                                  hash |-> result.image_hash,
                                  events_hash |-> current_events_hash],
                       status |-> 200, body |-> result.image_hash, rendered |-> "ok"]

\* GET /image/hash were it to render whenever Google answers, as /image does.
get_calendar_image_hash_AlwaysRenders(cache, calendars, view, capture, google) ==
    IF google # "ok" THEN CachedHashResponse(cache, "no")
    ELSE IF ~capture THEN CachedHashResponse(cache, "failed")
    ELSE LET result == generate_calendar_screenshot(cache, calendars, view)
         IN  [cache |-> [path |-> result.path,
                         hash |-> result.image_hash,
                         events_hash |->
                             compute_events_hash(fetch_calendar_events(calendars))],
              status |-> 200, body |-> result.image_hash, rendered |-> "ok"]

get_calendar_image_hash(cache, calendars, view, capture, google) ==
    IF google # "ok" THEN CachedHashResponse(cache, "no")
    ELSE LET current_events_hash ==
                 compute_events_hash(fetch_calendar_events(calendars))
         IN  IF cache.events_hash = current_events_hash /\ cache.hash # None
             THEN CachedHashResponse(cache, "no")
             ELSE IF ~capture THEN CachedHashResponse(cache, "failed")
             ELSE LET result == generate_calendar_screenshot(cache, calendars, view)
                  IN  [cache |-> [path |-> result.path,
                                  hash |-> result.image_hash,
                                  events_hash |-> current_events_hash],
                       status |-> 200, body |-> result.image_hash, rendered |-> "ok"]

GoogleOutcomes == {"ok", "service_error", "fetch_error"}

\* ------------------------------------------------------------------------
\* image_receiver_server.py: the handlers the sync service talks to
\* ------------------------------------------------------------------------

\* POST /calendar_sync/status with JSON body data.
calendar_sync_status_post(status, data) ==
    [fetching   |-> IF "fetching" \in DOMAIN data THEN data.fetching
                    ELSE status.fetching,
     uploading  |-> IF "uploading" \in DOMAIN data THEN data.uploading
                    ELSE status.uploading,
     last_error |-> IF "error" \in DOMAIN data THEN data.error
                    ELSE status.last_error]

\* GET /calendar_sync/check_trigger: the flag is read and cleared under
\* _calendar_sync_lock.
check_manual_sync_trigger_NoClear(flag) == [flag |-> flag, trigger |-> flag]

check_manual_sync_trigger(flag) == [flag |-> FALSE, trigger |-> flag]

\* ------------------------------------------------------------------------
\* calendar_sync_service.py
\* ------------------------------------------------------------------------

\* StatusData were it to test the arguments for truth: False is not sent.
StatusData_OnlyTruthy(kw) ==
    [k \in {x \in DOMAIN kw : IF x = "error" THEN kw[x] # None ELSE kw[x]}
        |-> kw[k]]

\* update_status: the keyword arguments that are not None make the body; the
\* request is skipped when the body is empty, and a request that fails is
\* ignored.  kw holds fetching and uploading only when they were passed.
StatusData(kw) ==
    [k \in {x \in DOMAIN kw : x # "error" \/ kw[x] # None} |-> kw[k]]

update_status(kw) ==
    calendar_sync_status' =
        IF status_up /\ DOMAIN StatusData(kw) # {}
        THEN calendar_sync_status_post(calendar_sync_status, StatusData(kw))
        ELSE calendar_sync_status

\* get_image_hash on a response of /image/hash (None when the request failed).
get_image_hash(response) ==
    IF response # None /\ response[1].status = 200 THEN response[1].body ELSE None

\* The record of a loop iteration that has just begun.
NewTick ==
    [startup |-> FALSE, trigger |-> FALSE, polled |-> FALSE, events |-> None,
     download |-> FALSE, upload |-> "no", start_hash |-> last_hash]

\* What the next iteration remembers of a finished one, until it has polled
\* and gone on: whether the finished one refreshed on a detected change,
\* whether that refresh delivered the image, and the events Google held when
\* it polled.
NoSummary == [change |-> FALSE, delivered |-> FALSE, events |-> None]

Summary(t) ==
    IF t.polled /\ t.download
    THEN [change |-> TRUE, delivered |-> t.upload = "ok", events |-> t.events]
    ELSE NoSummary

\* The end of refresh_display: the temp file is removed and control returns to
\* the caller, which in the change-detected branch then sets last_hash.
AfterRefresh ==
    /\ temp_file' = None
    /\ pc' = CASE caller = "startup" -> "init_hash"
               [] caller = "manual" -> "manual_hash"
               [] OTHER -> "sleep"
    /\ last_hash' = IF caller = "change" THEN new_hash ELSE last_hash
    /\ caller' = "none"
    /\ UNCHANGED new_hash

\* download_image up to the request: the status update that announces it.
download_image_begin ==
    /\ pc = "download_image"
    /\ update_status([fetching |-> TRUE, uploading |-> FALSE])
    /\ pc' = "download_get"
    /\ tick' = [tick EXCEPT !.download = TRUE]
    /\ prev' = NoSummary
    /\ UNCHANGED <<caller, last_hash, new_hash, temp_file, server_vars,
                   manual_sync_trigger, status_up, last_render, hash_vars, more_vars>>

\* download_image from the GET of /image on: net is whether the request
\* reached the server and its response came back.
download_image_get ==
    /\ pc = "download_get"
    /\ \E net \in BOOLEAN, capture \in BOOLEAN, google \in GoogleOutcomes :
        LET r == get_calendar_image(screenshot_cache, gcal, calendar_view,
                                    capture, google)
        IN  IF net /\ r.status = 200
            THEN /\ screenshot_cache' = r.cache
                 /\ temp_file' = r.body
                 /\ update_status([fetching |-> FALSE, error |-> None])
                 /\ pc' = "upload_image"
                 /\ UNCHANGED <<caller, last_hash, new_hash>>
            ELSE /\ screenshot_cache' = IF net THEN r.cache ELSE screenshot_cache
                 /\ update_status([fetching |-> FALSE,
                                   error |-> Some("download")])
                 /\ AfterRefresh
    /\ UNCHANGED <<calendar_view, gcal, manual_sync_trigger, status_up,
                   obs_vars, hash_vars, more_vars>>

\* upload_image_to_endpoint up to the request.
upload_image_begin ==
    /\ pc = "upload_image"
    /\ update_status([fetching |-> FALSE, uploading |-> TRUE])
    /\ pc' = "upload_post"
    /\ tick' = [tick EXCEPT !.upload = "sent"]
    /\ UNCHANGED <<caller, last_hash, new_hash, temp_file, server_vars,
                   manual_sync_trigger, status_up, prev, last_render, hash_vars, more_vars>>

\* upload_image_to_endpoint from the POST on: ok is whether the receiver
\* answered 200.
upload_image_post ==
    /\ pc = "upload_post"
    /\ \E ok \in BOOLEAN :
        IF ok
        THEN /\ tick' = [tick EXCEPT !.upload = "ok"]
             /\ update_status([uploading |-> FALSE, error |-> None])
        ELSE /\ tick' = [tick EXCEPT !.upload = "failed"]
             /\ update_status([uploading |-> FALSE, error |-> Some("upload")])
    /\ AfterRefresh
    /\ UNCHANGED <<server_vars, manual_sync_trigger, status_up, prev,
                   last_render, hash_vars, more_vars>>

\* A request of the sync service to /image/hash: None when it fails on the
\* way, else the cache after it and the response.
HashRequest(net, capture, google) ==
    IF net
    THEN Some(get_calendar_image_hash(screenshot_cache, gcal, calendar_view,
                                      capture, google))
    ELSE None

CacheAfter(response) ==
    IF response = None THEN screenshot_cache ELSE response[1].cache

\* main, line 162: the hash fetched after the initial refresh.
init_hash ==
    /\ pc = "init_hash"
    /\ \E net \in BOOLEAN, capture \in BOOLEAN, google \in GoogleOutcomes :
        LET response == HashRequest(net, capture, google)
        IN  /\ screenshot_cache' = CacheAfter(response)
            /\ last_hash' = get_image_hash(response)
    /\ pc' = "sleep"
    /\ UNCHANGED <<caller, new_hash, temp_file, calendar_view, gcal,
                   receiver_vars, obs_vars, hash_vars, more_vars>>

\* main, line 167: time.sleep(poll_interval) begins a loop iteration.
sleep ==
    /\ pc = "sleep"
    /\ pc' = "check_trigger"
    /\ prev' = Summary(tick)
    /\ tick' = NewTick
    /\ UNCHANGED <<caller, last_hash, new_hash, temp_file, server_vars,
                   receiver_vars, last_render, hash_vars, more_vars>>

\* main, lines 170-178: the manual-trigger check when the request succeeds.
check_trigger ==
    /\ pc = "check_trigger"
    /\ LET r == check_manual_sync_trigger(manual_sync_trigger)
       IN  /\ manual_sync_trigger' = r.flag
           /\ IF r.trigger
              THEN /\ caller' = "manual"
                   /\ pc' = "download_image"
                   /\ tick' = [tick EXCEPT !.trigger = TRUE]
              ELSE /\ pc' = "poll_hash"
                   /\ UNCHANGED <<caller, tick>>
    /\ UNCHANGED <<last_hash, new_hash, temp_file, server_vars,
                   calendar_sync_status, status_up, prev, last_render, hash_vars, more_vars>>

\* main, lines 179-181: the manual-trigger check when the request raises.
\* handled is whether the receiver ran the handler before the failure (its
\* answer was lost or came after the 2 s timeout).
check_trigger_error ==
    /\ pc = "check_trigger"
    /\ \E handled \in BOOLEAN :
        manual_sync_trigger' =
            IF handled THEN check_manual_sync_trigger(manual_sync_trigger).flag
            ELSE manual_sync_trigger
    /\ pc' = "poll_hash"
    /\ UNCHANGED <<caller, last_hash, new_hash, temp_file, server_vars,
                   calendar_sync_status, status_up, obs_vars, hash_vars, more_vars>>

\* main, line 177: the hash fetched after a manual refresh.
manual_hash ==
    /\ pc = "manual_hash"
    /\ \E net \in BOOLEAN, capture \in BOOLEAN, google \in GoogleOutcomes :
        LET response == HashRequest(net, capture, google)
        IN  /\ screenshot_cache' = CacheAfter(response)
            /\ last_hash' = get_image_hash(response)
    /\ pc' = "sleep"
    /\ UNCHANGED <<caller, new_hash, temp_file, calendar_view, gcal,
                   receiver_vars, obs_vars, hash_vars, more_vars>>

\* main, lines 184-191: whether the hash new_hash fetched calls for a refresh.
ChangeDetected_Always(fetched, last) == fetched # None

ChangeDetected_NoneIsChange(fetched, last) == fetched # last

ChangeDetected(fetched, last) == fetched # None /\ fetched # last

\* main, lines 184-191: the poll for a hash change.
poll_hash ==
    /\ pc = "poll_hash"
    /\ \E net \in BOOLEAN, capture \in BOOLEAN, google \in GoogleOutcomes :
        LET response == HashRequest(net, capture, google)
            fetched == get_image_hash(response)
        IN  /\ screenshot_cache' = CacheAfter(response)
            /\ new_hash' = fetched
            /\ tick' = [tick EXCEPT !.polled = TRUE,
                                    !.events = IF net /\ google = "ok"
                                               THEN Some(gcal) ELSE None]
            /\ IF ChangeDetected(fetched, last_hash)
               THEN caller' = "change" /\ pc' = "download_image"
               ELSE caller' = caller /\ pc' = "sleep"
    /\ UNCHANGED <<last_hash, temp_file, calendar_view, gcal, receiver_vars,
                   prev, last_render, hash_vars, more_vars>>

\* ------------------------------------------------------------------------
\* The other actors
\* ------------------------------------------------------------------------

\* POST /calendar_sync/trigger while the sync process runs: the flag is set.
trigger_calendar_sync ==
    /\ manual_sync_trigger' = TRUE
    /\ UNCHANGED <<sync_vars, server_vars, calendar_sync_status, status_up,
                   obs_vars, hash_vars, more_vars>>

\* The events of the calendars change at Google.
google_change ==
    /\ gcal' \in GoogleStates \ {gcal}
    /\ UNCHANGED <<sync_vars, screenshot_cache, calendar_view, receiver_vars,
                   obs_vars, hash_vars, more_vars>>

\* POST /api/settings with another calendar_view, while no other request to
\* /api/settings is in progress.
api_settings ==
    /\ calendar_view' \in CalendarViews \ {calendar_view}
    /\ settings_file' = [settings_file EXCEPT !.calendar_view = calendar_view']
    /\ UNCHANGED <<sync_vars, screenshot_cache, gcal, receiver_vars,
                   obs_vars, hash_vars, lock_vars, settings_lock, posts,
                   display_vars, crop_vars, mode_vars, rest_vars>>

\* ------------------------------------------------------------------------
\* The running system
\* ------------------------------------------------------------------------

EmptyCache == [path |-> None, hash |-> None, events_hash |-> None]

\* The cache after a request rendered the page for calendars and view.
CacheOf(calendars, view) ==
    [path |-> Some(FreshPath(EmptyCache)),
     hash |-> Sha(Page(fetch_calendar_events(calendars), view)),
     events_hash |-> compute_events_hash(fetch_calendar_events(calendars))]

\* The cache the calendar server can hold when the sync service starts: none
\* yet, or the screenshot an earlier request made.
InitialCaches ==
    {EmptyCache} \cup {CacheOf(g, v) : g \in GoogleStates, v \in CalendarViews}

\* main, line 158: the first statement of main that talks to a server.
main_entry_HashFirst == "init_hash"

main_entry == "download_image"

\* No request has been observed yet.
NoRender ==
    [endpoint |-> "none", rendered |-> "no", before |-> EmptyCache,
     calendars |-> <<>>, google |-> "ok", status |-> 0, body |-> None,
     rendered_for |-> None]

\* A request that has not arrived.
NoRequest ==
    [endpoint |-> "none", phase |-> "none", waited |-> FALSE, rendered |-> "no",
     calendars |-> <<>>, view |-> "none", google |-> "ok", order |-> 0]

\* The clients that may send a request at the same time.
ReqIds == {1, 2}

\* No request to /image or /image/hash is in flight.
LockIdle ==
    /\ cache_lock = None
    /\ requests = [r \in ReqIds |-> NoRequest]

\* A POST that has not arrived.
NoPost == [phase |-> "none", key |-> "none", value |-> "none", settings |-> None]

\* settings['theme'] takes these values.
Themes == {"spectra6", "standard"}

\* settings.json holds calendar_view and the default theme, and no POST to
\* /api/settings is in flight.
SettingsIdle ==
    /\ settings_file = [calendar_view |-> calendar_view, theme |-> "spectra6"]
    /\ settings_lock = None
    /\ posts = [p \in ReqIds |-> NoPost]

\* The frame of the tests: EPD_WIDTH = 960, EPD_HEIGHT = 680.
TestFrame == <<960, 680>>

\* The defaults of display_image's parameters.
DefaultArgs ==
    [zoom_to_fit |-> FALSE, test_rotation |-> None, rotation_mode |-> "landscape",
     auto_zoom_after_rotation |-> TRUE]

\* display_image is not running.
DisplayIdle ==
    /\ display_pc = "idle"
    /\ epd_size = TestFrame
    /\ image_size = TestFrame
    /\ args = DefaultArgs
    /\ Himage = image_size
    /\ zoom_to_fit = FALSE
    /\ image_was_rotated = FALSE
    /\ rotation_angle = 0
    /\ new_size = None
    /\ painted = None
    /\ returned = "none"

\* The defaults of generate_calendar_screenshot's parameters.
DefaultSize == <<1600, 1200>>

\* An image: its width and its rows, top row first.  A row is the number of
\* its sampled pixels that are not white.
NoImage == [width |-> 0, rows |-> <<>>]

\* generate_calendar_screenshot is not running.
CropIdle ==
    /\ crop_pc = "idle"
    /\ req_size = DefaultSize
    /\ shot = NoImage
    /\ img = NoImage
    /\ detected = None
    /\ redetected = None
    /\ shot_result = "none"

\* No upload is being handled; the receiver runs in its default mode.
ModeIdle ==
    /\ upload_pc = "idle"
    /\ config_mode = "image_receiver"
    /\ sync_process = FALSE
    /\ upload_request = None
    /\ current_mode = "image_receiver"
    /\ mode_switched = FALSE
    /\ upload_status = 0
    /\ uploads = 0

\* The processes the receiver can start, by the order of their start.
MaxSpawns == 3

\* No request to /mode/switch is in flight.
NoSwitch == [phase |-> "none", new_mode |-> "none", status |-> 0]

\* No sync process has been started and no request to /mode/switch made.
SwitchIdle ==
    /\ proc_handle = None
    /\ procs = [p \in 1..MaxSpawns |-> "none"]
    /\ switches = [r \in ReqIds |-> NoSwitch]
    /\ autostart = "none"
    /\ trigger_status = 0

\* No run of display_image on the panel.
EpdIdle ==
    /\ epd_pc = "idle"
    /\ epd_calls = <<>>
    /\ epd_returned = "none"
    /\ epd_runs = 0
    /\ panel = [shows |-> "unknown", asleep |-> TRUE]

\* An empty log buffer.
LogIdle ==
    /\ log_max_size = 1
    /\ logs = <<>>
    /\ log_next = 0
    /\ log_result = None
    /\ log_limit = 0

RestIdle == SwitchIdle /\ EpdIdle /\ LogIdle

MoreIdle ==
    LockIdle /\ SettingsIdle /\ DisplayIdle /\ CropIdle /\ ModeIdle /\ RestIdle

\* No fingerprint is being compared.
HashIdle ==
    /\ calendars_in = <<>>
    /\ events_in = <<>>
    /\ hash_in = None
    /\ op = "none"
    /\ calendars_out = <<>>
    /\ events_out = <<>>
    /\ hash_out = None

Init ==
    /\ pc = main_entry
    /\ caller = "startup"
    /\ last_hash = None
    /\ new_hash = None
    /\ temp_file = None
    /\ screenshot_cache \in InitialCaches
    /\ calendar_view = "fullcalendar"
    /\ gcal \in GoogleStates
    /\ manual_sync_trigger = FALSE
    /\ calendar_sync_status =
           [fetching |-> FALSE, uploading |-> FALSE, last_error |-> None]
    /\ status_up \in BOOLEAN
    /\ tick = [startup |-> TRUE, trigger |-> FALSE, polled |-> FALSE,
               events |-> None, download |-> FALSE, upload |-> "no",
               start_hash |-> None]
    /\ prev = NoSummary
    /\ last_render = NoRender
    /\ HashIdle
    /\ MoreIdle

SyncNext ==
    \/ download_image_begin
    \/ download_image_get
    \/ upload_image_begin
    \/ upload_image_post
    \/ init_hash
    \/ sleep
    \/ check_trigger
    \/ check_trigger_error
    \/ manual_hash
    \/ poll_hash

Next ==
    \/ SyncNext
    \/ trigger_calendar_sync
    \/ google_change
    \/ api_settings

Spec == Init /\ [][Next]_vars

\* ------------------------------------------------------------------------
\* The calendar server alone, serving any client (ServerSpec)
\* ------------------------------------------------------------------------

\* The sync service at rest while requests of other clients are observed.
SyncIdle ==
    /\ pc = "sleep"
    /\ caller = "none"
    /\ last_hash = None
    /\ new_hash = None
    /\ temp_file = None
    /\ manual_sync_trigger = FALSE
    /\ calendar_sync_status =
           [fetching |-> FALSE, uploading |-> FALSE, last_error |-> None]
    /\ status_up = TRUE
    /\ tick = [startup |-> TRUE, trigger |-> FALSE, polled |-> FALSE,
               events |-> None, download |-> FALSE, upload |-> "no",
               start_hash |-> None]
    /\ prev = NoSummary

\* A client's GET /image, handled under screenshot_cache['lock'].
image_request ==
    /\ \E capture \in BOOLEAN, google \in GoogleOutcomes :
        LET r == get_calendar_image(screenshot_cache, gcal, calendar_view,
                                    capture, google)
        IN  /\ screenshot_cache' = r.cache
            /\ last_render' = [endpoint |-> "image", rendered |-> r.rendered,
                               before |-> screenshot_cache, calendars |-> gcal,
                               google |-> google, status |-> r.status,
                               body |-> r.body,
                               rendered_for |-> IF r.rendered = "ok" THEN None
                                                ELSE last_render.rendered_for]
    /\ UNCHANGED <<sync_vars, calendar_view, gcal, receiver_vars, tick, prev,
                   hash_vars, more_vars>>

\* A client's GET /image/hash, handled under screenshot_cache['lock'].
image_hash_request ==
    /\ \E capture \in BOOLEAN, google \in GoogleOutcomes :
        LET r == get_calendar_image_hash(screenshot_cache, gcal, calendar_view,
                                         capture, google)
        IN  /\ screenshot_cache' = r.cache
            /\ last_render' = [endpoint |-> "hash", rendered |-> r.rendered,
                               before |-> screenshot_cache, calendars |-> gcal,
                               google |-> google, status |-> r.status,
                               body |-> r.body,
                               rendered_for |-> IF r.rendered = "ok" THEN Some(gcal)
                                                ELSE last_render.rendered_for]
    /\ UNCHANGED <<sync_vars, calendar_view, gcal, receiver_vars, tick, prev,
                   hash_vars, more_vars>>

ServerInit ==
    /\ SyncIdle
    /\ screenshot_cache \in InitialCaches
    /\ calendar_view \in CalendarViews
    /\ gcal \in GoogleStates
    /\ last_render = NoRender
    /\ HashIdle
    /\ MoreIdle

ServerNext ==
    \/ image_request
    \/ image_hash_request
    \/ google_change
    \/ api_settings

ServerSpec == ServerInit /\ [][ServerNext]_vars

\* ------------------------------------------------------------------------
\* The fingerprint functions applied to bounded inputs (HashSpec)
\* ------------------------------------------------------------------------

\* The most events the calendars hold together.
MaxEvents == 2

\* Dates range over 1..MaxDate.
MaxDate == 2

\* Summaries: "a" and "A".
Titles == {<<97>>, <<65>>}

\* The colours a calendar can be given (default_palette entries).
Colors == {"#1E90FF", "#e60000", "#ffd600"}

\* The items Google returns for a calendar.
Items ==
    {[summary |-> t, start |-> d[1], end |-> d[2], description |-> "",
      location |-> ""] :
        t \in Titles,
        d \in {x \in (1..MaxDate) \X (1..MaxDate) : x[1] <= x[2]}}

ItemLists == UNION {[1..k -> Items] : k \in 0..MaxEvents}

\* calendar_ids with the items of each: calendar A, calendar B, or both in
\* either order.
CalendarLists ==
    {<<[id |-> i, items |-> x]>> : i \in {"A", "B"}, x \in ItemLists}
    \cup {<<[id |-> i, items |-> x], [id |-> j, items |-> y]>> :
             <<i, j>> \in {<<"A", "B">>, <<"B", "A">>},
             <<x, y>> \in {z \in ItemLists \X ItemLists :
                              Len(z[1]) + Len(z[2]) <= MaxEvents}}

\* The rearrangements of a list.
Rearrangements(events) ==
    LET n == Len(events)
    IN  {[i \in 1..n |-> events[f[i]]] :
            f \in {g \in [1..n -> 1..n] : \A i, j \in 1..n : i # j => g[i] # g[j]}}

\* The same events with another colour for the events of one calendar.
Recolored(events, calendar_id, color) ==
    [i \in 1..Len(events) |->
        IF events[i].calendarId = calendar_id
        THEN [events[i] EXCEPT !.backgroundColor = color, !.borderColor = color]
        ELSE events[i]]

\* compute_events_hash is applied to the events in another order.
permute ==
    /\ \E other \in Rearrangements(events_in) \ {events_in} :
        /\ events_out' = other
        /\ hash_out' = compute_events_hash(other)
    /\ op' = "permute"
    /\ calendars_out' = calendars_in
    /\ UNCHANGED <<sync_vars, server_vars, receiver_vars, obs_vars,
                   calendars_in, events_in, hash_in,
                   more_vars>>

\* compute_events_hash is applied after the colour of a calendar changed.
recolor ==
    /\ \E i \in 1..Len(events_in), c \in Colors :
        /\ c # events_in[i].backgroundColor
        /\ events_out' = Recolored(events_in, events_in[i].calendarId, c)
        /\ hash_out' = compute_events_hash(events_out')
    /\ op' = "recolor"
    /\ calendars_out' = calendars_in
    /\ UNCHANGED <<sync_vars, server_vars, receiver_vars, obs_vars,
                   calendars_in, events_in, hash_in,
                   more_vars>>

\* compute_events_hash is applied after the title of one event changed.
retitle ==
    /\ \E i \in 1..Len(events_in), t \in Titles \cup {<<98>>} :
        /\ t # events_in[i].title
        /\ events_out' = [events_in EXCEPT ![i].title = t]
        /\ hash_out' = compute_events_hash(events_out')
    /\ op' = "retitle"
    /\ calendars_out' = calendars_in
    /\ UNCHANGED <<sync_vars, server_vars, receiver_vars, obs_vars,
                   calendars_in, events_in, hash_in,
                   more_vars>>

\* The same calendars are fetched in the other order, then fingerprinted.
reorder_calendars ==
    /\ Len(calendars_in) = 2
    /\ calendars_out' = <<calendars_in[2], calendars_in[1]>>
    /\ events_out' = fetch_calendar_events(calendars_out')
    /\ hash_out' = compute_events_hash(events_out')
    /\ op' = "reorder"
    /\ UNCHANGED <<sync_vars, server_vars, receiver_vars, obs_vars,
                   calendars_in, events_in, hash_in,
                   more_vars>>

HashInit ==
    /\ SyncIdle
    /\ screenshot_cache = EmptyCache
    /\ calendar_view = "fullcalendar"
    /\ gcal = <<>>
    /\ last_render = NoRender
    /\ calendars_in \in CalendarLists
    /\ events_in = fetch_calendar_events(calendars_in)
    /\ hash_in = compute_events_hash(events_in)
    /\ op = "none"
    /\ calendars_out = calendars_in
    /\ events_out = events_in
    /\ hash_out = hash_in
    /\ MoreIdle

HashNext ==
    \/ permute
    \/ recolor
    \/ retitle
    \/ reorder_calendars

HashSpec == HashInit /\ [][HashNext]_vars

\* ------------------------------------------------------------------------
\* Concurrent requests to /image and /image/hash (LockSpec)
\* ------------------------------------------------------------------------

\* Flask hands the request of client r to a thread.
arrive(r) ==
    /\ requests[r].phase = "none"
    /\ \E endpoint \in {"image", "hash"} :
        requests' = [requests EXCEPT
                        ![r].endpoint = endpoint,
                        ![r].phase = "waiting",
                        ![r].waited = cache_lock # None]
    /\ UNCHANGED <<sync_vars, server_vars, receiver_vars, obs_vars, hash_vars,
                   cache_lock, settings_vars, display_vars, crop_vars, mode_vars, rest_vars>>

\* with screenshot_cache['lock']: the thread of r enters the handler's body.
\* The requests left waiting are noted.
acquire(r) ==
    /\ requests[r].phase = "waiting"
    /\ cache_lock = None
    /\ cache_lock' = Some(r)
    /\ requests' = [o \in ReqIds |->
                       IF o = r THEN [requests[o] EXCEPT !.phase = "handling"]
                       ELSE IF requests[o].phase = "waiting"
                       THEN [requests[o] EXCEPT !.waited = TRUE]
                       ELSE requests[o]]
    /\ UNCHANGED <<sync_vars, server_vars, receiver_vars, obs_vars, hash_vars,
                   settings_vars, display_vars, crop_vars, mode_vars, rest_vars>>

\* The body of the handler, run by the holder of the lock, and the release of
\* the lock on return.
serve(r) ==
    /\ requests[r].phase = "handling"
    /\ cache_lock = Some(r)
    /\ \E capture \in BOOLEAN, google \in GoogleOutcomes :
        LET result ==
                IF requests[r].endpoint = "image"
                THEN get_calendar_image(screenshot_cache, gcal, calendar_view,
                                        capture, google)
                ELSE get_calendar_image_hash(screenshot_cache, gcal,
                                             calendar_view, capture, google)
        IN  /\ screenshot_cache' = result.cache
            /\ requests' = [requests EXCEPT
                   ![r].phase = "done",
                   ![r].rendered = result.rendered,
                   ![r].calendars = gcal,
                   ![r].view = calendar_view,
                   ![r].google = google,
                   ![r].order =
                       1 + Cardinality({o \in ReqIds : requests[o].phase = "done"})]
    /\ cache_lock' = None
    /\ UNCHANGED <<sync_vars, calendar_view, gcal, receiver_vars, obs_vars,
                   hash_vars, settings_vars,
                   display_vars, crop_vars, mode_vars, rest_vars>>

LockInit ==
    /\ SyncIdle
    /\ screenshot_cache \in InitialCaches
    /\ calendar_view \in CalendarViews
    /\ gcal \in GoogleStates
    /\ last_render = NoRender
    /\ HashIdle
    /\ MoreIdle

LockNext ==
    \/ \E r \in ReqIds : arrive(r)
    \/ \E r \in ReqIds : acquire(r)
    \/ \E r \in ReqIds : serve(r)
    \/ google_change

LockSpec == LockInit /\ [][LockNext]_vars

\* ------------------------------------------------------------------------
\* Concurrent POSTs to /api/settings (SettingsSpec)
\* ------------------------------------------------------------------------

\* settings.json between open(SETTINGS_FILE, 'w') and the end of json.dump.
Truncated == <<>>

\* The values a POST can give to a key.
SettingsValues(key) == IF key = "calendar_view" THEN CalendarViews ELSE Themes

\* api_settings up to save_settings: request.get_json, load_settings (which
\* takes no lock) and the update of the loaded dictionary.  json.load raises
\* on a file that is being written, and the request fails.
post_load(p) ==
    /\ posts[p].phase = "none"
    /\ \E key \in {"calendar_view", "theme"} : \E value \in SettingsValues(key) :
        posts' = [posts EXCEPT ![p] =
            IF settings_file = Truncated
            THEN [phase |-> "failed", key |-> key, value |-> value,
                  settings |-> None]
            ELSE [phase |-> "loaded", key |-> key, value |-> value,
                  settings |-> [settings_file EXCEPT ![key] = value]]]
    /\ UNCHANGED <<sync_vars, server_vars, receiver_vars, obs_vars, hash_vars,
                   lock_vars, settings_file, settings_lock,
                   display_vars, crop_vars, mode_vars, rest_vars>>

\* save_settings: with settings_lock, open(SETTINGS_FILE, 'w').
post_save_begin(p) ==
    /\ posts[p].phase = "loaded"
    /\ settings_lock = None
    /\ settings_lock' = Some(p)
    /\ settings_file' = Truncated
    /\ posts' = [posts EXCEPT ![p].phase = "writing"]
    /\ UNCHANGED <<sync_vars, server_vars, receiver_vars, obs_vars, hash_vars,
                   lock_vars, display_vars, crop_vars, mode_vars, rest_vars>>

\* save_settings: json.dump, the file is closed and the lock released.
post_save_end(p) ==
    /\ posts[p].phase = "writing"
    /\ settings_lock = Some(p)
    /\ settings_file' = posts[p].settings
    /\ calendar_view' = posts[p].settings.calendar_view
    /\ settings_lock' = None
    /\ posts' = [posts EXCEPT ![p].phase = "saved"]
    /\ UNCHANGED <<sync_vars, screenshot_cache, gcal, receiver_vars, obs_vars,
                   hash_vars, lock_vars, display_vars, crop_vars, mode_vars, rest_vars>>

SettingsInit ==
    /\ SyncIdle
    /\ screenshot_cache = EmptyCache
    /\ calendar_view \in CalendarViews
    /\ gcal \in GoogleStates
    /\ last_render = NoRender
    /\ HashIdle
    /\ MoreIdle

SettingsNext ==
    \/ \E p \in ReqIds : post_load(p)
    \/ \E p \in ReqIds : post_save_begin(p)
    \/ \E p \in ReqIds : post_save_end(p)

SettingsSpec == SettingsInit /\ [][SettingsNext]_vars

\* ------------------------------------------------------------------------
\* Properties of the sync loop (checked under Spec)
\* ------------------------------------------------------------------------

\* The iteration has ended: the loop is back at time.sleep.
TickEnded == pc = "sleep" /\ ~tick.startup

\* C1: at the end of every iteration that polled the hash (no manual trigger
\* was consumed), a refresh was started if and only if get_image_hash
\* returned a hash different from the last_hash the iteration began with
\* (None included); otherwise nothing was downloaded or uploaded and
\* last_hash is what it was.
C1_RefreshIffHashDiffers ==
    (TickEnded /\ tick.polled) =>
        /\ ~tick.trigger
        /\ tick.download <=> (new_hash # None /\ new_hash # tick.start_hash)
        /\ ~tick.download =>
               (tick.upload = "no" /\ last_hash = tick.start_hash)
        /\ tick.download => last_hash = new_hash

\* An iteration that found a new hash while one was cached, and delivered it.
C1_Witness ==
    /\ TickEnded /\ tick.polled /\ tick.download /\ tick.upload = "ok"
    /\ tick.start_hash # None

\* C2: until the first iteration begins, the service is inside the initial
\* refresh or past it: it fetches the first hash, and sleeps for the first
\* time, only after the download of /image was attempted, and the upload
\* follows a successful download, whatever the server's cache holds.
C2_RefreshBeforeFirstHash ==
    tick.startup =>
        /\ pc \in {"download_image", "download_get", "upload_image",
                   "upload_post", "init_hash", "sleep"}
        /\ pc \in {"init_hash", "sleep"} => tick.download
        /\ pc \in {"download_image", "download_get", "upload_image",
                   "upload_post"} => (caller = "startup" /\ last_hash = None)
        /\ ~tick.polled /\ ~tick.trigger

\* The initial refresh delivered an image and the first hash is about to be
\* fetched.
C2_Witness ==
    /\ tick.startup /\ pc = "init_hash" /\ tick.upload = "ok"
    /\ tick.start_hash = None

\* C3: when the refresh of the previous iteration, started on a detected
\* change, did not deliver the image, an iteration that fetches the hash
\* makes a fresh attempt to deliver it.
C3_RetryAfterFailedDelivery ==
    (TickEnded /\ tick.polled /\ new_hash # None
        /\ prev.change /\ ~prev.delivered) => tick.download

\* C4 as claimed: whenever get_image_hash returns None in the loop (at the
\* poll, or at the fetch that follows a manual refresh), last_hash is left
\* unchanged and the iteration makes no refresh.
C4_FailedFetchKeepsLastHash ==
    [][((poll_hash /\ new_hash' = None) \/ (manual_hash /\ last_hash' = None))
        => (last_hash' = last_hash /\ ~tick'.download)]_vars

\* C4 as amended: a failed hash fetch never stops the loop.  At the poll of an
\* iteration that consumed no manual trigger, new_hash becomes None, no
\* refresh is started, last_hash is unchanged and the loop goes to its next
\* sleep.  At the fetch after the initial refresh or after a manual refresh
\* the loop goes to its next sleep too, with last_hash set to None.
C4_FailedFetchNotFatal ==
    [][/\ (poll_hash /\ new_hash' = None) =>
              /\ pc' = "sleep"
              /\ last_hash' = last_hash
              /\ ~tick'.download /\ tick'.upload = "no" /\ ~tick'.trigger
       /\ (manual_hash /\ last_hash' = None) =>
              (pc' = "sleep" /\ tick'.trigger /\ tick'.download)
       /\ (init_hash /\ last_hash' = None) =>
              (pc' = "sleep" /\ tick'.startup /\ tick'.download)]_vars

\* A poll failed while a hash was cached, and the loop is at its next sleep.
C4_Witness ==
    /\ TickEnded /\ tick.polled /\ new_hash = None /\ last_hash # None

\* C5: a successful check_trigger request that finds the flag set starts a
\* refresh and leaves the flag cleared; a refresh is forced only by such a
\* request, so each forced refresh consumes a set flag; and the iteration
\* that was forced downloads without comparing any hash.
C5_TriggerForcesOneRefresh ==
    /\ [][/\ (check_trigger /\ manual_sync_trigger) =>
                 /\ ~manual_sync_trigger'
                 /\ tick'.trigger /\ pc' = "download_image"
                 /\ caller' = "manual"
          /\ (tick'.trigger /\ ~tick.trigger) =>
                 (manual_sync_trigger /\ ~manual_sync_trigger')
          /\ (check_trigger /\ ~manual_sync_trigger) =>
                 (~manual_sync_trigger' /\ ~tick'.trigger)]_vars
    /\ []((TickEnded /\ tick.trigger) => (tick.download /\ ~tick.polled))

\* A forced refresh delivered the image in an iteration whose hash had not
\* changed, and the flag is clear.
C5_Witness ==
    /\ TickEnded /\ tick.trigger /\ tick.upload = "ok"
    /\ ~manual_sync_trigger
    /\ last_hash # None /\ last_hash = tick.start_hash

\* C6: on the poll that follows a refresh started on a detected change, when
\* Google holds the same events as on the poll before, the hash endpoint
\* reports the hash it reported then and no refresh is started.
C6_SamePayloadNoSecondRefresh ==
    (/\ tick.polled /\ ~tick.download
     /\ pc \in {"sleep", "download_image"}
     /\ prev.change /\ prev.delivered
     /\ prev.events # None /\ tick.events = prev.events)
        => (new_hash = tick.start_hash /\ pc = "sleep")

\* ------------------------------------------------------------------------
\* Properties of the fingerprint (checked under HashSpec)
\* ------------------------------------------------------------------------

\* C7: the fingerprint of a list of events and of any rearrangement of it
\* are the same.
C7_OrderIndependent == op = "permute" => hash_out = hash_in

\* No two events of the list have the same (start, title).
DistinctSortKeys(events) ==
    \A i, j \in 1..Len(events) :
        i # j => (events[i].start # events[j].start
                  \/ events[i].title # events[j].title)

\* C8: fetching the same calendars in the other order gives the same
\* fingerprint of the de-duplicated events.  The lists compared are those in
\* which no two events share the sort key of compute_events_hash, so that the
\* order of equal keys plays no part.
C8_SameFingerprintAnyCalendarOrder ==
    (op = "reorder" /\ DistinctSortKeys(events_in) /\ DistinctSortKeys(events_out))
        => hash_out = hash_in

\* C9: a change of colour alone leaves the fingerprint as it is, and a change
\* of the title of one event changes it.
C9_OnlyHashedFieldsCount ==
    /\ op = "recolor" => hash_out = hash_in
    /\ op = "retitle" => hash_out # hash_in

\* Two events were fingerprinted, then again after the colour of one of them
\* changed: the events differ and the fingerprints do not.
C9_Witness ==
    /\ op = "recolor" /\ Len(events_in) = 2
    /\ events_out # events_in /\ hash_out = hash_in

\* ------------------------------------------------------------------------
\* Properties of the screenshot cache (checked under ServerSpec)
\* ------------------------------------------------------------------------

\* /image/hash would render: the cache has no hash, or its events_hash is not
\* the fingerprint of the events Google holds.
RenderNeeded(cache, calendars) ==
    \/ cache.hash = None
    \/ cache.events_hash # compute_events_hash(fetch_calendar_events(calendars))

\* C10: after a request whose capture failed, path, hash and events_hash are
\* what they were before the request; and when the request was /image/hash,
\* which attempted the capture because the events had changed, a /image/hash
\* request for the same events would attempt it again.
C10_FailedCaptureWritesNothing ==
    last_render.rendered = "failed" =>
        /\ screenshot_cache = last_render.before
        /\ (last_render.endpoint = "hash" /\ last_render.calendars = gcal)
               => RenderNeeded(screenshot_cache, gcal)

\* The capture failed in /image/hash while a screenshot of other events was
\* cached: the stale entry is still there.
C10_Witness ==
    /\ last_render.rendered = "failed" /\ last_render.endpoint = "hash"
    /\ screenshot_cache.hash # None /\ screenshot_cache.events_hash # None
    /\ last_render.calendars = gcal

\* The image in the file the cache points to: the one its hash was taken of.
CachedImage(cache) == cache.hash[2]

\* The request met a transient failure: in /image/hash the calendar service
\* was unavailable, the events could not be fetched or the capture failed; in
\* /image the capture failed.
TransientFailure(r) ==
    \/ r.endpoint = "hash" /\ (r.google # "ok" \/ r.rendered = "failed")
    \/ r.endpoint = "image" /\ r.rendered = "failed"

\* C11: a request that met a transient failure answers 200 with the cached
\* value (the cached hash from /image/hash, the cached image from /image)
\* whenever the cache holds one, and answers with an error only when the cache
\* holds none.
C11_StaleFallbackServed ==
    TransientFailure(last_render) =>
        IF last_render.before.hash # None
        THEN /\ last_render.status = 200
             /\ last_render.body =
                    IF last_render.endpoint = "hash"
                    THEN last_render.before.hash
                    ELSE Some(CachedImage(last_render.before))
        ELSE last_render.status = 500

\* ------------------------------------------------------------------------
\* Properties of concurrent requests (checked under LockSpec, SettingsSpec)
\* ------------------------------------------------------------------------

\* C12: when two requests for the same endpoint were in flight together, the
\* one served second having waited for the lock, and both found the same
\* events and settings with Google reachable, then after a render by the
\* first the second is served from the cache without a render of its own.
C12_SecondServedFromCache ==
    \A r, o \in ReqIds :
        (/\ requests[o].phase = "done" /\ requests[r].phase = "done"
         /\ requests[o].order < requests[r].order
         /\ requests[r].waited
         /\ requests[r].endpoint = requests[o].endpoint
         /\ requests[o].rendered = "ok"
         /\ requests[o].google = "ok" /\ requests[r].google = "ok"
         /\ requests[r].calendars = requests[o].calendars
         /\ requests[r].view = requests[o].view)
            => requests[r].rendered = "no"

\* C13: when two POSTs that set different keys have both been saved, the
\* settings file holds the value of each.
C13_NoLostUpdate ==
    \A p, q \in ReqIds :
        (/\ posts[p].phase = "saved" /\ posts[q].phase = "saved"
         /\ posts[p].key # posts[q].key)
            => /\ settings_file # Truncated
               /\ settings_file[posts[p].key] = posts[p].value
               /\ settings_file[posts[q].key] = posts[q].value

\* ------------------------------------------------------------------------
\* Python floats (FloatLib)
\* ------------------------------------------------------------------------

(***************************************************************************)
(* Python floats (IEEE-754 binary64), as display_image.py uses them.  A    *)
(* positive float is [m |-> mantissa, e |-> exponent] with value m * 2^e,  *)
(* the mantissa a natural number of exactly MantBits bits.  Naturals that  *)
(* do not fit a machine word are sequences of digits in base Base, least   *)
(* significant digit first, without leading zero digits.                   *)
(***************************************************************************)
Base == 2^14

DigitBits == 14

MantBits == 53

RECURSIVE BFromInt(_)
BFromInt(n) == IF n = 0 THEN <<>> ELSE <<n % Base>> \o BFromInt(n \div Base)

RECURSIVE BToInt(_)
BToInt(a) == IF a = <<>> THEN 0 ELSE a[1] + Base * BToInt(Tail(a))

RECURSIVE BTrim(_)
BTrim(a) ==
    IF a = <<>> THEN a
    ELSE IF a[Len(a)] = 0 THEN BTrim(SubSeq(a, 1, Len(a) - 1)) ELSE a

RECURSIVE BMulSmall(_, _, _)
BMulSmall(a, d, carry) ==
    IF a = <<>> THEN BFromInt(carry)
    ELSE LET t == a[1] * d + carry
         IN  <<t % Base>> \o BMulSmall(Tail(a), d, t \div Base)

RECURSIVE BAdd(_, _, _)
BAdd(a, b, carry) ==
    IF a = <<>> /\ b = <<>> THEN BFromInt(carry)
    ELSE LET x == IF a = <<>> THEN 0 ELSE a[1]
             y == IF b = <<>> THEN 0 ELSE b[1]
             t == x + y + carry
         IN  <<t % Base>> \o BAdd(IF a = <<>> THEN a ELSE Tail(a),
                                  IF b = <<>> THEN b ELSE Tail(b), t \div Base)

RECURSIVE BMul(_, _)
BMul(a, b) ==
    IF b = <<>> THEN <<>>
    ELSE BAdd(BMulSmall(a, b[1], 0), <<0>> \o BMul(a, Tail(b)), 0)

RECURSIVE BDivRem(_, _)
BDivRem(a, d) ==
    IF a = <<>> THEN [q |-> <<>>, r |-> 0]
    ELSE LET hi == BDivRem(Tail(a), d)
             cur == hi.r * Base + a[1]
         IN  [q |-> <<cur \div d>> \o hi.q, r |-> cur % d]

RECURSIVE IntBitLen(_)
IntBitLen(n) == IF n = 0 THEN 0 ELSE 1 + IntBitLen(n \div 2)

BitLen(a) == IF a = <<>> THEN 0 ELSE (Len(a) - 1) * DigitBits + IntBitLen(a[Len(a)])

BShl(a, s) ==
    [i \in 1..(s \div DigitBits) |-> 0] \o BMulSmall(a, 2^(s % DigitBits), 0)

BShr(a, s) ==
    IF s \div DigitBits >= Len(a) THEN <<>>
    ELSE BTrim(BDivRem(SubSeq(a, s \div DigitBits + 1, Len(a)), 2^(s % DigitBits)).q)

BLowZero(a, s) ==
    /\ \A i \in 1..(s \div DigitBits) : i <= Len(a) => a[i] = 0
    /\ s \div DigitBits < Len(a) => a[s \div DigitBits + 1] % 2^(s % DigitBits) = 0

RECURSIVE BLess(_, _)
BLess(a, b) ==
    IF Len(a) # Len(b) THEN Len(a) < Len(b)
    ELSE IF a = <<>> THEN FALSE
    ELSE IF a[Len(a)] # b[Len(b)] THEN a[Len(a)] < b[Len(b)]
    ELSE BLess(SubSeq(a, 1, Len(a) - 1), SubSeq(b, 1, Len(b) - 1))

Round(N, E) ==
    LET n == BitLen(N)
    IN  IF n <= MantBits
        THEN [m |-> BTrim(BShl(N, MantBits - n)), e |-> E - (MantBits - n)]
        ELSE LET s == n - MantBits
                 q1 == BShr(N, s - 1)
                 q == BShr(q1, 1)
                 up == /\ q1[1] % 2 = 1
                       /\ (~BLowZero(N, s - 1) \/ q[1] % 2 = 1)
                 r == IF up THEN BAdd(q, <<1>>, 0) ELSE q
             IN  IF BitLen(r) > MantBits
                 THEN [m |-> BShr(r, 1), e |-> E + s + 1]
                 ELSE [m |-> r, e |-> E + s]

FromInt(n) == Round(BFromInt(n), 0)

GuardShift == 6 * DigitBits

FDivInt(a, b) ==
    LET dr == BDivRem(BShl(BFromInt(a), GuardShift), b)
    IN  Round(BAdd(BMulSmall(BTrim(dr.q), 2, 0),
                   IF dr.r = 0 THEN <<>> ELSE <<1>>, 0), 0 - GuardShift - 1)

FMul(x, y) == Round(BTrim(BMul(x.m, y.m)), x.e + y.e)

FLess(x, y) == x.e < y.e \/ (x.e = y.e /\ BLess(x.m, y.m))

FMin(x, y) == IF FLess(y, x) THEN y ELSE x

FMax(x, y) == IF FLess(x, y) THEN y ELSE x

Trunc(x) ==
    IF x.e >= 0 THEN BToInt(BShl(x.m, x.e))
    ELSE BToInt(BShr(x.m, 0 - x.e))

\* ------------------------------------------------------------------------
\* display_image.py: rotation and scaling (DisplaySpec)
\* ------------------------------------------------------------------------

\* The literal 1.05.
Threshold == FDivInt(105, 100)

\* Image.rotate(angle, expand=True) on a size: a quarter turn swaps width and
\* height, a half turn and no turn keep them.
rotate(size, angle) ==
    IF angle \in {90, 270} THEN <<size[2], size[1]>> ELSE size

img_is_portrait(size) == size[2] > size[1]

display_is_portrait(frame) == frame[2] > frame[1]

\* min(display_width / img_width, display_height / img_height)
scale_no_rotation(size, frame) ==
    FMin(FDivInt(frame[1], size[1]), FDivInt(frame[2], size[2]))

\* (img_width * scale_no_rotation) * (img_height * scale_no_rotation)
area_no_rotation(size, frame) ==
    LET scale == scale_no_rotation(size, frame)
    IN  FMul(FMul(FromInt(size[1]), scale), FMul(FromInt(size[2]), scale))

\* min(display_width / img_height, display_height / img_width)
scale_with_rotation(size, frame) ==
    FMin(FDivInt(frame[1], size[2]), FDivInt(frame[2], size[1]))

\* (img_height * scale_with_rotation) * (img_width * scale_with_rotation)
area_with_rotation(size, frame) ==
    LET scale == scale_with_rotation(size, frame)
    IN  FMul(FMul(FromInt(size[2]), scale), FMul(FromInt(size[1]), scale))

\* area_with_rotation > area_no_rotation: rotate on any gain.
should_rotate_AnyGain(size, frame) ==
    FLess(area_no_rotation(size, frame), area_with_rotation(size, frame))

\* area_with_rotation >= area_no_rotation: rotate unless it loses area.
should_rotate_NoLoss(size, frame) ==
    ~FLess(area_with_rotation(size, frame), area_no_rotation(size, frame))

\* area_with_rotation > area_no_rotation * 1.05
should_rotate(size, frame) ==
    FLess(FMul(area_no_rotation(size, frame), Threshold),
          area_with_rotation(size, frame))

\* Every rotation is by 90 degrees.
auto_rotation_angle_Always90(size, frame) == 90

\* The angle of the auto mode.
auto_rotation_angle(size, frame) ==
    IF img_is_portrait(size) /\ ~display_is_portrait(frame) THEN 270
    ELSE IF ~img_is_portrait(size) /\ display_is_portrait(frame) THEN 90
    ELSE 270

\* The landscape mode leaves the image as it is.
mode_rotation_LandscapeKeeps(mode, size, frame) ==
    IF mode = "auto"
    THEN IF should_rotate(size, frame) THEN auto_rotation_angle(size, frame) ELSE 0
    ELSE IF mode = "landscape" THEN 0
    ELSE IF mode = "portrait" THEN 90
    ELSE 270

\* The portrait mode leaves the image as it is.
mode_rotation_PortraitKeeps(mode, size, frame) ==
    IF mode = "auto"
    THEN IF should_rotate(size, frame) THEN auto_rotation_angle(size, frame) ELSE 0
    ELSE IF mode = "landscape" THEN 270
    ELSE IF mode = "portrait" THEN 0
    ELSE 270

\* An unknown mode leaves the image as it is.
mode_rotation_UnknownKeeps(mode, size, frame) ==
    IF mode = "auto"
    THEN IF should_rotate(size, frame) THEN auto_rotation_angle(size, frame) ELSE 0
    ELSE IF mode = "landscape" THEN 270
    ELSE IF mode = "portrait" THEN 90
    ELSE 0

\* The rotation of each mode: the angle, 0 when the auto mode leaves the
\* image as it is.
mode_rotation(mode, size, frame) ==
    IF mode = "auto"
    THEN IF should_rotate(size, frame) THEN auto_rotation_angle(size, frame) ELSE 0
    ELSE IF mode = "landscape" THEN 270
    ELSE IF mode = "portrait" THEN 90
    ELSE 270

\* The rotation switches the policy to fill whatever auto_zoom_after_rotation.
zoom_after_rotation_Always(zoom, rotated, auto_zoom) ==
    IF rotated THEN TRUE ELSE zoom

\* if auto_zoom_after_rotation: zoom_to_fit = True, in each branch that
\* rotates.
zoom_after_rotation(zoom, rotated, auto_zoom) ==
    IF rotated /\ auto_zoom THEN TRUE ELSE zoom

\* The scale of the fit policy taken as the larger ratio.
scale_factor_AlwaysMax(size, frame, zoom) ==
    FMax(FDivInt(frame[1], size[1]), FDivInt(frame[2], size[2]))

\* max of the two ratios to fill, min to fit.
scale_factor(size, frame, zoom) ==
    IF zoom THEN FMax(FDivInt(frame[1], size[1]), FDivInt(frame[2], size[2]))
    ELSE FMin(FDivInt(frame[1], size[1]), FDivInt(frame[2], size[2]))

\* (int(original_width * scale_factor), int(original_height * scale_factor))
scaled_size(size, frame, zoom) ==
    LET scale == scale_factor(size, frame, zoom)
    IN  <<Trunc(FMul(FromInt(size[1]), scale)), Trunc(FMul(FromInt(size[2]), scale))>>

Min(a, b) == IF a < b THEN a ELSE b

\* Himage.crop((crop_x, crop_y, crop_x + crop_width, crop_y + crop_height)):
\* the size of the crop box.
cropped_size(size, frame) == <<Min(frame[1], size[1]), Min(frame[2], size[2])>>

\* The largest width and height of the images drawn exhaustively.
MaxDim == 12

\* The images of test_rotation.py, an image of the frame's size, a sliver,
\* two images either side of the 5% threshold, a phone screenshot and images
\* without width or without height.
TestSizes ==
    {<<600, 800>>, <<800, 600>>, <<800, 800>>, <<960, 680>>, <<1, 2000>>,
     <<40, 41>>, <<41, 42>>, <<1284, 2778>>, <<0, 600>>, <<800, 0>>}

ImageSizes == ((1..MaxDim) \X (1..MaxDim)) \cup TestSizes

\* The frame of the tests, mounted either way.
Frames == {TestFrame, <<680, 960>>}

RotationModes == {"landscape", "portrait", "auto", "other"}

TestRotations == {None, Some(0), Some(90), Some(180), Some(270)}

\* display_width / img_width or display_height / img_height raises
\* ZeroDivisionError.
ZeroDivisionError(size) == size[1] = 0 \/ size[2] = 0

\* The handler of the exception makes display_image return True.
error_result_True == "True"

\* return False, in the handler of the exception.
error_result == "False"

\* What epd.getbuffer can do with an image: the driver takes an image of the
\* frame's size; what it does with another one is the driver's business.
getbuffer(size, frame) ==
    IF size = frame THEN {"buffer"} ELSE {"buffer", "raise"}

\* Lines 42-58: the file is looked up, the panel initialised and cleared, the
\* image opened.
open_image ==
    /\ display_pc = "start"
    /\ \E file \in {"missing", "unreadable", "image"} :
        /\ display_pc' = CASE file = "missing" -> "done"
                           [] file = "unreadable" -> "except"
                           [] OTHER -> "test_rotation"
        /\ returned' = IF file = "missing" THEN "False" ELSE returned
    /\ UNCHANGED <<sync_vars, server_vars, receiver_vars, obs_vars, hash_vars,
                   lock_vars, settings_vars, crop_vars, mode_vars, rest_vars,
                   epd_size, image_size, args, Himage,
                   zoom_to_fit, image_was_rotated, rotation_angle, new_size,
                   painted>>

\* Lines 67-70.
apply_test_rotation ==
    /\ display_pc = "test_rotation"
    /\ Himage' = IF args.test_rotation # None
                 THEN rotate(Himage, args.test_rotation[1]) ELSE Himage
    /\ display_pc' = "rotation_mode"
    /\ UNCHANGED <<sync_vars, server_vars, receiver_vars, obs_vars, hash_vars,
                   lock_vars, settings_vars, crop_vars, mode_vars, rest_vars,
                   epd_size, image_size, args,
                   zoom_to_fit, image_was_rotated, rotation_angle, new_size,
                   painted, returned>>

\* Lines 73-155.  The auto mode divides by the image's width and height.
apply_rotation_mode ==
    /\ display_pc = "rotation_mode"
    /\ IF args.rotation_mode = "auto" /\ ZeroDivisionError(Himage)
       THEN /\ display_pc' = "except"
            /\ UNCHANGED <<rotation_angle, image_was_rotated, Himage, zoom_to_fit>>
       ELSE /\ rotation_angle' = mode_rotation(args.rotation_mode, Himage, epd_size)
            /\ image_was_rotated' = (rotation_angle' # 0)
            /\ Himage' = rotate(Himage, rotation_angle')
            /\ zoom_to_fit' = zoom_after_rotation(zoom_to_fit, image_was_rotated',
                                                  args.auto_zoom_after_rotation)
            /\ display_pc' = "resize"
    /\ UNCHANGED <<sync_vars, server_vars, receiver_vars, obs_vars, hash_vars,
                   lock_vars, settings_vars, crop_vars, mode_vars, rest_vars,
                   epd_size, image_size, args,
                   new_size, painted, returned>>

\* Lines 158-202.  The scale factor divides by the image's width and height;
\* Image.resize raises on a width or height of 0.
resize_to_display ==
    /\ display_pc = "resize"
    /\ IF Himage = epd_size
       THEN /\ display_pc' = "display"
            /\ UNCHANGED <<Himage, new_size>>
       ELSE IF ZeroDivisionError(Himage)
       THEN /\ display_pc' = "except"
            /\ UNCHANGED <<Himage, new_size>>
       ELSE /\ new_size' = scaled_size(Himage, epd_size, zoom_to_fit)
            /\ IF new_size'[1] = 0 \/ new_size'[2] = 0
               THEN /\ display_pc' = "except"
                    /\ UNCHANGED Himage
               ELSE /\ display_pc' = "display"
                    /\ Himage' = IF zoom_to_fit
                                 THEN cropped_size(new_size', epd_size)
                                 ELSE epd_size
    /\ UNCHANGED <<sync_vars, server_vars, receiver_vars, obs_vars, hash_vars,
                   lock_vars, settings_vars, crop_vars, mode_vars, rest_vars,
                   epd_size, image_size, args,
                   zoom_to_fit, image_was_rotated, rotation_angle, painted,
                   returned>>

\* Lines 205-214: epd.display(epd.getbuffer(Himage)), epd.sleep, return True.
epd_display ==
    /\ display_pc = "display"
    /\ \E outcome \in getbuffer(Himage, epd_size) :
        IF outcome = "buffer"
        THEN /\ painted' = Himage
             /\ returned' = "True"
             /\ display_pc' = "done"
        ELSE /\ display_pc' = "except"
             /\ UNCHANGED <<painted, returned>>
    /\ UNCHANGED <<sync_vars, server_vars, receiver_vars, obs_vars, hash_vars,
                   lock_vars, settings_vars, crop_vars, mode_vars, rest_vars,
                   epd_size, image_size, args, Himage,
                   zoom_to_fit, image_was_rotated, rotation_angle, new_size>>

\* Lines 216-220: except Exception, epd.sleep, return False.
on_exception ==
    /\ display_pc = "except"
    /\ returned' = error_result
    /\ display_pc' = "done"
    /\ UNCHANGED <<sync_vars, server_vars, receiver_vars, obs_vars, hash_vars,
                   lock_vars, settings_vars, crop_vars, mode_vars, rest_vars,
                   epd_size, image_size, args, Himage,
                   zoom_to_fit, image_was_rotated, rotation_angle, new_size,
                   painted>>

DisplayInit ==
    /\ SyncIdle
    /\ screenshot_cache = EmptyCache
    /\ calendar_view = "fullcalendar"
    /\ gcal = <<>>
    /\ last_render = NoRender
    /\ HashIdle
    /\ LockIdle
    /\ SettingsIdle
    /\ CropIdle
    /\ ModeIdle
    /\ RestIdle
    /\ display_pc = "start"
    /\ epd_size \in Frames
    /\ image_size \in ImageSizes
    /\ args \in [zoom_to_fit : BOOLEAN, test_rotation : TestRotations,
                 rotation_mode : RotationModes,
                 auto_zoom_after_rotation : BOOLEAN]
    /\ Himage = image_size
    /\ zoom_to_fit = args.zoom_to_fit
    /\ image_was_rotated = FALSE
    /\ rotation_angle = 0
    /\ new_size = None
    /\ painted = None
    /\ returned = "none"

DisplayNext ==
    \/ open_image
    \/ apply_test_rotation
    \/ apply_rotation_mode
    \/ resize_to_display
    \/ epd_display
    \/ on_exception

DisplaySpec == DisplayInit /\ [][DisplayNext]_vars

\* ------------------------------------------------------------------------
\* Properties of display_image
\* ------------------------------------------------------------------------

\* The image has been scaled and is about to be handed to the panel.
Scaled == display_pc = "display" /\ new_size # None

\* C14: whenever the policy in force is fill and the image was scaled, the
\* image after the centred crop has exactly the frame's size.
C14_FillGivesFrameSize ==
    (Scaled /\ zoom_to_fit) => Himage = epd_size

\* C16: display_image ends either having handed the panel an image of exactly
\* the frame's size or, through the error path, having handed it nothing.
C16_OnlyFrameSizedBuffers ==
    display_pc = "done" =>
        \/ returned = "True" /\ painted = epd_size
        \/ returned = "False" /\ painted = None

\* C15 as stated: under the fit policy the larger dimension of the scaled
\* image equals the frame's and the other is at most the frame's.
C15_LargerDimensionEqualsFrame ==
    (Scaled /\ ~zoom_to_fit) =>
        IF new_size[1] >= new_size[2]
        THEN new_size[1] = epd_size[1] /\ new_size[2] <= epd_size[2]
        ELSE new_size[2] = epd_size[2] /\ new_size[1] <= epd_size[1]

\* C15: under the fit policy both dimensions of the scaled image are at most
\* the frame's, one of them is the frame's or one pixel less, and the image
\* is pasted whole on a canvas of the frame's size.
C15_FitWithinFrame ==
    (Scaled /\ ~zoom_to_fit) =>
        /\ new_size[1] <= epd_size[1]
        /\ new_size[2] <= epd_size[2]
        /\ \/ new_size[1] >= epd_size[1] - 1
           \/ new_size[2] >= epd_size[2] - 1
        /\ Himage = epd_size

\* The 800x600 image of the tests is fitted to 906x680 on the 960x680 frame.
C15_Witness ==
    /\ Scaled /\ ~zoom_to_fit
    /\ image_size = <<800, 600>> /\ epd_size = TestFrame
    /\ new_size = <<906, 680>>
    /\ Himage = epd_size

\* The size of the image when the rotation mode is applied.
after_test_rotation ==
    IF args.test_rotation # None
    THEN rotate(image_size, args.test_rotation[1]) ELSE image_size

\* The call of the scenario: a 600x800 image, the 960x680 frame, auto mode
\* with auto-zoom.
Scenario600x800 ==
    /\ image_size = <<600, 800>>
    /\ epd_size = TestFrame
    /\ args.rotation_mode = "auto"
    /\ args.test_rotation = None
    /\ args.auto_zoom_after_rotation

\* C17: the angle the auto mode applies is 270 for a portrait image on a
\* landscape frame and 90 for a landscape image on a portrait frame; the
\* 600x800 image on the 960x680 frame is rotated by 270, scaled under the
\* fill policy and handed over as exactly 960x680.
C17_AutoAngles ==
    /\ (args.rotation_mode = "auto" /\ image_was_rotated) =>
        /\ (img_is_portrait(after_test_rotation) /\ ~display_is_portrait(epd_size))
               => rotation_angle = 270
        /\ (~img_is_portrait(after_test_rotation) /\ display_is_portrait(epd_size))
               => rotation_angle = 90
    /\ (Scenario600x800 /\ (display_pc \in {"resize", "display"} \/ returned = "True")) =>
        /\ rotation_angle = 270
        /\ zoom_to_fit
        /\ display_pc = "display" => Himage = <<960, 680>>
        /\ returned = "True" => painted = <<960, 680>>

\* The scenario has run to its end.
C17_Witness ==
    /\ Scenario600x800
    /\ returned = "True"
    /\ rotation_angle = 270
    /\ new_size = <<960, 720>>
    /\ painted = <<960, 680>>

\* min(W/w, H/h) as an exact fraction <<numerator, denominator>>.
exact_fit(size, frame) ==
    IF frame[1] * size[2] <= frame[2] * size[1]
    THEN <<frame[1], size[1]>> ELSE <<frame[2], size[2]>>

\* The square of a natural number, in digits.
Square(n) == BTrim(BMul(BFromInt(n), BFromInt(n)))

\* The fitted area after a quarter turn is more than 1.05 times the fitted
\* area without it, in exact arithmetic: with fit scales r and n the areas
\* are w*h*r^2 and w*h*n^2, so the condition is 20 * r^2 > 21 * n^2.
MoreThan5Percent(size, frame) ==
    LET n == exact_fit(size, frame)
        r == exact_fit(<<size[2], size[1]>>, frame)
    IN  BLess(BTrim(BMulSmall(Square(n[1] * r[2]), 21, 0)),
              BTrim(BMulSmall(Square(r[1] * n[2]), 20, 0)))

\* C18: the auto mode rotates only when the fitted area after rotation is
\* more than 1.05 times the fitted area without it; on a gain of 5% or less,
\* a tie included, the image is not rotated and zoom_to_fit is the caller's.
C18_RotateOnlyAbove5Percent ==
    (args.rotation_mode = "auto" /\ display_pc = "resize") =>
        /\ image_was_rotated => MoreThan5Percent(after_test_rotation, epd_size)
        /\ ~MoreThan5Percent(after_test_rotation, epd_size) =>
               /\ ~image_was_rotated
               /\ Himage = after_test_rotation
               /\ zoom_to_fit = args.zoom_to_fit

\* A 41x42 image on the 960x680 frame gains 4.9% by rotation and is left as
\* it is, with auto-zoom on and the caller's fit policy kept.
C18_Witness ==
    /\ args.rotation_mode = "auto" /\ display_pc = "resize"
    /\ image_size = <<41, 42>> /\ args.test_rotation = None
    /\ epd_size = TestFrame
    /\ args.auto_zoom_after_rotation /\ ~args.zoom_to_fit
    /\ ~image_was_rotated /\ ~zoom_to_fit

\* The call of the second scenario: an 800x600 image, the 960x680 frame,
\* auto mode, the fit policy asked for.
Scenario800x600 ==
    /\ image_size = <<800, 600>>
    /\ epd_size = TestFrame
    /\ args.rotation_mode = "auto"
    /\ args.test_rotation = None
    /\ ~args.zoom_to_fit

\* C19: the auto mode does not rotate an image whose orientation is the
\* frame's, so the angle is never chosen by the fallback branch; the 800x600
\* image on the 960x680 frame is scaled to fit and letterboxed, unrotated.
C19_SameOrientationNeverRotates ==
    /\ (/\ args.rotation_mode = "auto"
        /\ display_pc \in {"resize", "display"}
        /\ img_is_portrait(after_test_rotation) = display_is_portrait(epd_size))
           => /\ ~image_was_rotated
              /\ rotation_angle = 0
              /\ zoom_to_fit = args.zoom_to_fit
    /\ (Scenario800x600 /\ (display_pc = "display" \/ returned = "True")) =>
        /\ ~image_was_rotated
        /\ new_size = <<906, 680>>
        /\ Himage = <<960, 680>>
        /\ returned = "True" => painted = <<960, 680>>

\* The second scenario has run to its end.
C19_Witness ==
    /\ Scenario800x600
    /\ args.auto_zoom_after_rotation
    /\ returned = "True"
    /\ ~image_was_rotated
    /\ new_size = <<906, 680>>
    /\ painted = <<960, 680>>

\* C20: when the rotation mode rotated the image and auto_zoom_after_rotation
\* is on, the policy is fill whatever zoom_to_fit the caller passed, and the
\* scaled image covers the frame to within a pixel; when auto-zoom is off or
\* the auto mode did not rotate, zoom_to_fit is the caller's.
C20_AutoZoomCoupling ==
    display_pc \in {"resize", "display"} =>
        /\ (image_was_rotated /\ args.auto_zoom_after_rotation) =>
               /\ zoom_to_fit
               /\ Scaled => /\ new_size[1] >= epd_size[1] - 1
                            /\ new_size[2] >= epd_size[2] - 1
        /\ (~args.auto_zoom_after_rotation \/ ~image_was_rotated) =>
               zoom_to_fit = args.zoom_to_fit

\* A caller asked for the fit policy, the portrait mode rotated the image and
\* the image was scaled to fill.
C20_Witness ==
    /\ Scaled
    /\ args.rotation_mode = "portrait"
    /\ ~args.zoom_to_fit /\ args.auto_zoom_after_rotation
    /\ image_was_rotated /\ zoom_to_fit
    /\ image_size = <<600, 800>> /\ args.test_rotation = None
    /\ epd_size = TestFrame
    /\ new_size = <<960, 720>>

\* The rotation mode has just been applied.
ModeApplied == display_pc = "resize"

ScenarioInvalidMode ==
    /\ image_size = <<600, 800>>
    /\ epd_size = TestFrame
    /\ args.rotation_mode = "other"
    /\ args.test_rotation = None
    /\ ~args.zoom_to_fit /\ ~args.auto_zoom_after_rotation

\* C23: a rotation mode that is none of the three known ones raises nothing
\* and acts as the landscape mode: the image is rotated by 270 degrees, the
\* policy is switched as the landscape mode switches it, and the call of the
\* test, once the image is open, returns True with the frame painted.
C23_UnknownModeIsLandscape ==
    /\ (display_pc = "rotation_mode" /\ args.rotation_mode = "other") =>
           mode_rotation("other", Himage, epd_size)
               = mode_rotation("landscape", Himage, epd_size)
    /\ (ModeApplied /\ args.rotation_mode = "other") =>
           /\ image_was_rotated
           /\ rotation_angle = 270
           /\ Himage = rotate(after_test_rotation, 270)
           /\ zoom_to_fit = (args.zoom_to_fit \/ args.auto_zoom_after_rotation)
    /\ (ScenarioInvalidMode /\ display_pc = "done" /\ new_size # None) =>
           /\ returned = "True"
           /\ painted = <<960, 680>>

\* The call of the test has returned True.
C23_Witness ==
    /\ ScenarioInvalidMode
    /\ returned = "True"
    /\ rotation_angle = 270
    /\ new_size = <<906, 680>>
    /\ painted = <<960, 680>>

\* C24: when a test rotation is given, the rotation mode rotates nothing and
\* switches no policy: the image that is scaled is the image after the test
\* rotation alone.
C24_TestRotationBypassesMode ==
    (ModeApplied /\ args.test_rotation # None) =>
        /\ ~image_was_rotated
        /\ rotation_angle = 0
        /\ Himage = after_test_rotation
        /\ zoom_to_fit = args.zoom_to_fit

\* C25: without a test rotation, the landscape mode calls no rotate and the
\* portrait mode rotates by 270 degrees.
C25_TestSuiteRotations ==
    (ModeApplied /\ args.test_rotation = None) =>
        /\ args.rotation_mode = "landscape" =>
               ~image_was_rotated /\ Himage = image_size
        /\ args.rotation_mode = "portrait" => rotation_angle = 270

\* C26: an image without width or without height makes display_image return
\* False, with no scaled size computed and nothing handed to the panel.
C26_ZeroDimensionFails ==
    ZeroDivisionError(image_size) =>
        /\ new_size = None
        /\ painted = None
        /\ display_pc # "display"
        /\ display_pc = "done" => returned = "False"

\* An image without width was opened and rotated, and display_image returned
\* False.
C26_Witness ==
    /\ image_size = <<0, 600>>
    /\ image_was_rotated
    /\ display_pc = "done"
    /\ returned = "False"
    /\ painted = None

\* ------------------------------------------------------------------------
\* calendar_server.py: the screenshot and its whitespace (CropSpec)
\* ------------------------------------------------------------------------

Max(a, b) == IF a > b THEN a ELSE b

Maximum(S) == CHOOSE x \in S : \A y \in S : y <= x

\* required_white_rows = 3
required_white_rows == 3

\* sample_step = max(1, actual_width // 50)
sample_step(width) == Max(1, width \div 50)

\* sampled_pixels at the end of a row: the length of range(0, actual_width,
\* sample_step).
sampled_pixels(width) == (width + sample_step(width) - 1) \div sample_step(width)

\* content_threshold = 0.02
content_threshold == FDivInt(2, 100)

\* The literal 0.90.
white_ratio_limit == FDivInt(90, 100)

\* non_white_ratio >= content_threshold, for a row with non_white_count
\* sampled pixels that are not white.
is_content(non_white_count, width) ==
    /\ non_white_count > 0
    /\ ~FLess(FDivInt(non_white_count, sampled_pixels(width)), content_threshold)

\* white_ratio > 0.90, white_pixel_count being the sampled pixels that are
\* white.
is_white(non_white_count, width) ==
    /\ sampled_pixels(width) - non_white_count > 0
    /\ FLess(white_ratio_limit,
             FDivInt(sampled_pixels(width) - non_white_count, sampled_pixels(width)))

Height(image) == Len(image.rows)

\* rows_to_check = min(400, actual_height)
rows_to_check(image) == Min(400, Height(image))

\* range(actual_height - 1, max(-1, actual_height - rows_to_check - 1), -1)
ScannedRows(image) ==
    {y \in 0..(Height(image) - 1) :
        y > Max(0 - 1, Height(image) - rows_to_check(image) - 1)}

ContentRow(image, y) == is_content(image.rows[y + 1], image.width)

WhiteRow(image, y) == is_white(image.rows[y + 1], image.width)

\* The first loop: the lowest scanned row that is content, None if there is
\* none.
last_content_row(image) ==
    LET content == {y \in ScannedRows(image) : ContentRow(image, y)}
    IN  IF content = {} THEN None ELSE Some(Maximum(content))

\* The second loop: scanning upwards, consecutive_white_rows reaches
\* required_white_rows at the lowest row y that starts a run of that many
\* white rows within the scanned rows, and bottom_crop = y + 1; without such
\* a run bottom_crop stays actual_height.
white_run_crop(image) ==
    LET runs == {y \in ScannedRows(image) :
                    /\ y + required_white_rows - 1 <= Height(image) - 1
                    /\ \A i \in 0..(required_white_rows - 1) : WhiteRow(image, y + i)}
    IN  IF runs = {} THEN Height(image) ELSE Maximum(runs) + 1

\* suggested_crop = last_content_row + 6
suggested_crop(last) == last + 6

\* if last_content_row is not None: the smaller of suggested_crop and
\* bottom_crop.
bottom_crop(image) ==
    LET last == last_content_row(image)
        run == white_run_crop(image)
    IN  IF last # None /\ suggested_crop(last[1]) < run
        THEN suggested_crop(last[1]) ELSE run

\* The third loop, from row y with consecutive_white_rows = count.
RECURSIVE top_scan(_, _, _)
top_scan(image, y, count) ==
    IF y >= Min(100, Height(image)) THEN 0
    ELSE IF WhiteRow(image, y)
    THEN IF count + 1 >= required_white_rows THEN y
         ELSE top_scan(image, y + 1, count + 1)
    ELSE y

top_crop(image) == top_scan(image, 0, 0)

\* Lines 228-314.
detect_whitespace(image) ==
    [last |-> last_content_row(image), bottom |-> bottom_crop(image),
     top |-> top_crop(image)]

\* img.crop((0, top, width, bottom))
crop_rows(image, top, bottom) ==
    [width |-> image.width, rows |-> SubSeq(image.rows, top + 1, bottom)]

\* img.resize((width, height)): the row of the source nearest above each row
\* of the result stands for the resampled row; only the size is relied on.
resize_rows(image, size) ==
    [width |-> size[1],
     rows |-> [i \in 1..size[2] |->
                  image.rows[((i - 1) * Height(image)) \div size[2] + 1]]]

ImageSize(image) == <<image.width, Height(image)>>

\* The largest height of the screenshots drawn exhaustively.
MaxRows == 6

\* Rows with no sampled pixel that is not white, with 2% and with 10% of
\* them, out of the 50 sampled.
NonWhiteCounts == {0, 1, 5}

\* A screenshot as bands of equal rows: <<non_white_count, height>>.
RECURSIVE Expand(_)
Expand(bands) ==
    IF bands = <<>> THEN <<>>
    ELSE [i \in 1..bands[1][2] |-> bands[1][1]] \o Expand(Tail(bands))

\* Screenshots of the size of a page: content above 80 white rows, taller
\* than asked for; a footer under a gap of three white rows; content out of
\* reach of the scan; a white margin above the content.
TallShots ==
    {Expand(<<<<5, 1120>>, <<0, 280>>>>),
     Expand(<<<<5, 1090>>, <<0, 3>>, <<5, 107>>>>),
     Expand(<<<<5, 10>>, <<0, 1190>>>>),
     Expand(<<<<0, 50>>, <<5, 1150>>>>)}

ShotRows == UNION {[1..n -> NonWhiteCounts] : n \in 1..MaxRows} \cup TallShots

Widths == {1600, 800}

\* The sizes asked for: the default and sizes of a few rows.
ReqSizes == {DefaultSize, <<1600, MaxRows>>, <<1600, MaxRows - 1>>}

\* Lines 172-208: chromium is run; a non-zero return code or a timeout makes
\* generate_calendar_screenshot return None.
run_chromium ==
    /\ crop_pc = "start"
    /\ \E returncode \in {0, 1} :
        IF returncode # 0
        THEN crop_pc' = "done" /\ shot_result' = "None"
        ELSE crop_pc' = "open" /\ UNCHANGED shot_result
    /\ UNCHANGED <<sync_vars, server_vars, receiver_vars, obs_vars, hash_vars,
                   lock_vars, settings_vars, display_vars, mode_vars, rest_vars,
                   req_size, shot, img,
                   detected, redetected>>

\* Lines 211-219: PIL is imported and the file opened; an exception leaves
\* the file as chromium wrote it (lines 333-336).
open_screenshot ==
    /\ crop_pc = "open"
    /\ \E raises \in BOOLEAN :
        IF raises
        THEN crop_pc' = "hash" /\ UNCHANGED img
        ELSE crop_pc' = "hard_crop" /\ img' = shot
    /\ UNCHANGED <<sync_vars, server_vars, receiver_vars, obs_vars, hash_vars,
                   lock_vars, settings_vars, display_vars, mode_vars, rest_vars,
                   req_size, shot,
                   detected, redetected, shot_result>>

\* Lines 222-226.
hard_crop ==
    /\ crop_pc = "hard_crop"
    /\ img' = IF Height(img) > req_size[2]
              THEN crop_rows(img, 0, req_size[2]) ELSE img
    /\ crop_pc' = "detect"
    /\ UNCHANGED <<sync_vars, server_vars, receiver_vars, obs_vars, hash_vars,
                   lock_vars, settings_vars, display_vars, mode_vars, rest_vars,
                   req_size, shot,
                   detected, redetected, shot_result>>

\* Lines 228-314.
detect ==
    /\ crop_pc = "detect"
    /\ detected' = Some(detect_whitespace(img))
    /\ crop_pc' = "crop"
    /\ UNCHANGED <<sync_vars, server_vars, receiver_vars, obs_vars, hash_vars,
                   lock_vars, settings_vars, display_vars, mode_vars, rest_vars,
                   req_size, shot, img,
                   redetected, shot_result>>

\* Lines 316-321.  A crop box without height yields an image without rows or
\* raises, as the library decides.
crop_whitespace ==
    /\ crop_pc = "crop"
    /\ LET top == detected[1].top
           bottom == detected[1].bottom
       IN  IF top > 0 \/ bottom < Height(img)
           THEN IF bottom <= top
                THEN \E raises \in BOOLEAN :
                        IF raises
                        THEN crop_pc' = "hash" /\ UNCHANGED img
                        ELSE /\ crop_pc' = "resize"
                             /\ img' = [width |-> img.width, rows |-> <<>>]
                ELSE /\ crop_pc' = "resize"
                     /\ img' = crop_rows(img, top, bottom)
           ELSE crop_pc' = "resize" /\ UNCHANGED img
    /\ UNCHANGED <<sync_vars, server_vars, receiver_vars, obs_vars, hash_vars,
                   lock_vars, settings_vars, display_vars, mode_vars, rest_vars,
                   req_size, shot,
                   detected, redetected, shot_result>>

\* The detection of lines 228-314 applied once more, to the cropped image.
detect_again ==
    /\ crop_pc = "resize"
    /\ redetected = None
    /\ redetected' = Some(detect_whitespace(img))
    /\ UNCHANGED <<sync_vars, server_vars, receiver_vars, obs_vars, hash_vars,
                   lock_vars, settings_vars, display_vars, mode_vars, rest_vars,
                   crop_pc, req_size,
                   shot, img, detected, shot_result>>

\* Lines 323-332.  Resizing an image without rows succeeds or raises, as the
\* library decides.
resize_and_save ==
    /\ crop_pc = "resize"
    /\ IF ImageSize(img) # req_size
       THEN IF Height(img) = 0
            THEN \E raises \in BOOLEAN :
                    IF raises THEN UNCHANGED <<img, shot>>
                    ELSE /\ img' = [width |-> req_size[1],
                                    rows |-> [i \in 1..req_size[2] |-> 0]]
                         /\ shot' = img'
            ELSE /\ img' = resize_rows(img, req_size)
                 /\ shot' = img'
       ELSE shot' = img /\ UNCHANGED img
    /\ crop_pc' = "hash"
    /\ UNCHANGED <<sync_vars, server_vars, receiver_vars, obs_vars, hash_vars,
                   lock_vars, settings_vars, display_vars, mode_vars, rest_vars,
                   req_size, detected,
                   redetected, shot_result>>

\* Lines 337-343: return screenshot_path, image_hash.
return_screenshot ==
    /\ crop_pc = "hash"
    /\ shot_result' = "result"
    /\ crop_pc' = "done"
    /\ UNCHANGED <<sync_vars, server_vars, receiver_vars, obs_vars, hash_vars,
                   lock_vars, settings_vars, display_vars, mode_vars, rest_vars,
                   req_size, shot, img,
                   detected, redetected>>

CropInit ==
    /\ SyncIdle
    /\ screenshot_cache = EmptyCache
    /\ calendar_view = "fullcalendar"
    /\ gcal = <<>>
    /\ last_render = NoRender
    /\ HashIdle
    /\ LockIdle
    /\ SettingsIdle
    /\ DisplayIdle
    /\ ModeIdle
    /\ RestIdle
    /\ crop_pc = "start"
    /\ req_size \in ReqSizes
    /\ shot \in [width : Widths, rows : ShotRows]
    /\ img = NoImage
    /\ detected = None
    /\ redetected = None
    /\ shot_result = "none"

CropNext ==
    \/ run_chromium
    \/ open_screenshot
    \/ hard_crop
    \/ detect
    \/ crop_whitespace
    \/ detect_again
    \/ resize_and_save
    \/ return_screenshot

CropSpec == CropInit /\ [][CropNext]_vars

\* ------------------------------------------------------------------------
\* Properties of the whitespace detection and of the screenshot
\* ------------------------------------------------------------------------

\* C27: the bottom boundary is the smaller of last content row + 6 and the
\* white-run boundary, is not negative, and no scanned row whose sampled
\* non-white fraction is at least 2% lies at or below it.
C27_BottomCropKeepsContent ==
    crop_pc = "crop" =>
        /\ detected[1].bottom =
               IF detected[1].last # None
               THEN Min(suggested_crop(detected[1].last[1]), white_run_crop(img))
               ELSE white_run_crop(img)
        /\ detected[1].bottom >= 0
        /\ \A y \in ScannedRows(img) :
               ContentRow(img, y) => y < detected[1].bottom

\* C28: the detection applied to the image cropped at the boundaries it
\* computed removes nothing more: top boundary 0, bottom boundary the height.
C28_CropIdempotent ==
    (crop_pc = "resize" /\ redetected # None /\ Height(img) > 0) =>
        /\ redetected[1].top = 0
        /\ redetected[1].bottom = Height(img)

\* C29: when generate_calendar_screenshot returns a path and a hash, the
\* image in the file has exactly the size asked for.
C29_DeliveredSizeIsRequested ==
    shot_result = "result" => ImageSize(shot) = req_size

\* ------------------------------------------------------------------------
\* image_receiver_server.py: POST /upload and the operating mode
\* ------------------------------------------------------------------------

Modes == {"image_receiver", "calendar_sync"}

\* What a request carries in the header X-Calendar-Sync-Upload: None when
\* the header is absent.
SyncHeaders == {None, Some("true"), Some("false")}

\* The uploads one run handles.
MaxUploads == 3

\* calendar_sync_service.py line 76: requests.post(endpoint_url, files=files)
\* passes no headers argument, so the header is absent.
sync_service_header == None

\* Line 234.
is_sync_upload(header) == header = Some("true")

ModeOthersIdle ==
    UNCHANGED <<sync_vars, server_vars, receiver_vars, obs_vars, hash_vars,
                lock_vars, settings_vars, display_vars, crop_vars, rest_vars>>

\* upload_image_to_endpoint of the running sync process sends its POST.
sync_service_upload ==
    /\ upload_pc = "idle"
    /\ sync_process
    /\ uploads < MaxUploads
    /\ upload_request' = Some([sender |-> "sync", header |-> sync_service_header])
    /\ upload_pc' = "check"
    /\ UNCHANGED <<config_mode, sync_process, current_mode, mode_switched,
                   upload_status, uploads>>
    /\ ModeOthersIdle

\* Any other client sends a POST /upload, with whatever header it likes.
client_upload ==
    /\ upload_pc = "idle"
    /\ uploads < MaxUploads
    /\ \E header \in SyncHeaders :
        upload_request' = Some([sender |-> "client", header |-> header])
    /\ upload_pc' = "check"
    /\ UNCHANGED <<config_mode, sync_process, current_mode, mode_switched,
                   upload_status, uploads>>
    /\ ModeOthersIdle

\* upload_image, lines 227-238: the mode is read and the header examined.
upload_image_check ==
    /\ upload_pc = "check"
    /\ current_mode' = config_mode
    /\ mode_switched' = FALSE
    /\ upload_pc' =
           IF config_mode = "calendar_sync"
              /\ ~is_sync_upload(upload_request[1].header)
           THEN "set_mode"
           ELSE "display"
    /\ UNCHANGED <<config_mode, sync_process, upload_request, upload_status,
                   uploads>>
    /\ ModeOthersIdle

\* Lines 238-257 and 287-299: service_manager.py set-mode image_receiver is
\* run; it writes the mode (service_manager.py lines 37-46), fails or times
\* out.
upload_image_set_mode ==
    /\ upload_pc = "set_mode"
    /\ \E outcome \in {"ok", "failed", "timeout"} :
        IF outcome = "ok"
        THEN config_mode' = "image_receiver" /\ upload_pc' = "verify"
        ELSE UNCHANGED config_mode /\ upload_pc' = "display"
    /\ UNCHANGED <<sync_process, upload_request, current_mode, mode_switched,
                   upload_status, uploads>>
    /\ ModeOthersIdle

\* Lines 258-264 and 285-286: the configuration is read again.
upload_image_verify ==
    /\ upload_pc = "verify"
    /\ IF config_mode = "image_receiver"
       THEN mode_switched' = TRUE /\ upload_pc' = "restart"
       ELSE UNCHANGED mode_switched /\ upload_pc' = "display"
    /\ UNCHANGED <<config_mode, sync_process, upload_request, current_mode,
                   upload_status, uploads>>
    /\ ModeOthersIdle

\* Lines 266-284: service_manager.py restart.  When it restarts the service
\* the receiver is terminated with the request it was handling, its signal
\* handler stops the sync process (lines 696-705), and the new receiver
\* starts the sync process only in calendar_sync mode (lines 712-728).
\* Otherwise the handler goes on.
upload_image_restart ==
    /\ upload_pc = "restart"
    /\ \E outcome \in {"restarted", "failed", "timeout"} :
        IF outcome = "restarted"
        THEN /\ sync_process' = (config_mode = "calendar_sync")
             /\ upload_pc' = "idle"
             /\ upload_request' = None
             /\ mode_switched' = FALSE
             /\ upload_status' = 0
             /\ uploads' = uploads + 1
        ELSE /\ upload_pc' = "display"
             /\ UNCHANGED <<sync_process, upload_request, mode_switched,
                            upload_status, uploads>>
    /\ UNCHANGED <<config_mode, current_mode>>
    /\ ModeOthersIdle

\* Lines 300-386: the image is saved and display_image.py run; the response
\* is 200 or 500.
upload_image_display ==
    /\ upload_pc = "display"
    /\ \E status \in {200, 500} : upload_status' = status
    /\ upload_pc' = "idle"
    /\ upload_request' = None
    /\ mode_switched' = FALSE
    /\ uploads' = uploads + 1
    /\ UNCHANGED <<config_mode, sync_process, current_mode>>
    /\ ModeOthersIdle

\* POST /mode, lines 473-495: the mode is written, nothing is started.
mode ==
    /\ \E new_mode \in Modes : config_mode' = new_mode
    /\ config_mode' # config_mode
    /\ UNCHANGED <<upload_pc, sync_process, upload_request, current_mode,
                   mode_switched, upload_status, uploads>>
    /\ ModeOthersIdle

\* POST /mode/switch, lines 504-579: the mode is written and the sync process
\* started or stopped; starting it can fail.
switch_mode ==
    /\ \E new_mode \in Modes, started \in BOOLEAN :
        /\ new_mode # config_mode
        /\ config_mode' = new_mode
        /\ sync_process' = (new_mode = "calendar_sync" /\ started)
    /\ UNCHANGED <<upload_pc, upload_request, current_mode, mode_switched,
                   upload_status, uploads>>
    /\ ModeOthersIdle

\* The receiver has started in the mode of config.json (lines 712-728).
ModeInit ==
    /\ SyncIdle
    /\ screenshot_cache = EmptyCache
    /\ calendar_view = "fullcalendar"
    /\ gcal = <<>>
    /\ last_render = NoRender
    /\ HashIdle
    /\ LockIdle
    /\ SettingsIdle
    /\ DisplayIdle
    /\ CropIdle
    /\ RestIdle
    /\ upload_pc = "idle"
    /\ config_mode \in Modes
    /\ sync_process = (config_mode = "calendar_sync")
    /\ upload_request = None
    /\ current_mode = config_mode
    /\ mode_switched = FALSE
    /\ upload_status = 0
    /\ uploads = 0

ModeNext ==
    \/ sync_service_upload
    \/ client_upload
    \/ upload_image_check
    \/ upload_image_set_mode
    \/ upload_image_verify
    \/ upload_image_restart
    \/ upload_image_display
    \/ mode
    \/ switch_mode

ModeSpec == ModeInit /\ [][ModeNext]_vars

\* C30: while the receiver is in calendar_sync mode, an upload sent by the
\* calendar sync service does not set off the switch to image_receiver mode
\* nor the restart: only uploads of other clients do.
C30_SyncUploadDoesNotSwitch ==
    upload_pc \in {"set_mode", "verify", "restart"} =>
        upload_request[1].sender # "sync"

\* ------------------------------------------------------------------------
\* The status the sync service reports to the receiver
\* ------------------------------------------------------------------------

\* C31: after a successful download or a successful upload whose status
\* update reaches the receiver, the receiver's last_error is None.
C31_SuccessClearsError ==
    [][(/\ status_up
        /\ \/ download_image_get /\ pc' = "upload_image"
           \/ upload_image_post /\ tick'.upload = "ok")
       => calendar_sync_status'.last_error = None]_vars

\* The network between the sync service and the receiver comes and goes, so
\* that any subset of the requests of update_status (line 36, timeout 2,
\* failures ignored at lines 37-39) is lost.
status_link ==
    /\ status_up' = ~status_up
    /\ UNCHANGED <<sync_vars, server_vars, manual_sync_trigger,
                   calendar_sync_status, obs_vars, hash_vars, more_vars>>

\* The sync loop started against a calendar server that has rendered nothing
\* yet, with the calendar's events and a manual trigger arriving at any time.
StatusInit ==
    /\ Init
    /\ screenshot_cache = EmptyCache
    /\ gcal = <<[id |-> "A", items |-> <<>>]>>
    /\ status_up

StatusNext ==
    \/ SyncNext
    \/ trigger_calendar_sync
    \/ google_change
    \/ status_link

StatusSpec == StatusInit /\ [][StatusNext]_vars

\* C39: the status the receiver holds never has fetching and uploading true
\* together, whichever status updates are lost.
C39_NeverFetchingAndUploading ==
    ~(calendar_sync_status.fetching /\ calendar_sync_status.uploading)

\* The update that ends the download was lost: the receiver still shows
\* fetching while the service goes on to upload, and the link is up again.
C39_Witness ==
    /\ pc = "upload_image"
    /\ calendar_sync_status.fetching
    /\ status_up

\* ------------------------------------------------------------------------
\* /image/hash and the cache, over any number of requests (ServerSpec)
\* ------------------------------------------------------------------------

\* C32: /image/hash attempts a render only if the cache holds no image hash
\* or its events_hash is not the fingerprint of the events; and once
\* /image/hash has rendered, every further /image/hash request that finds the
\* events of that render answers the cached hash, renders nothing and leaves
\* the cache as it was (rendered_for is the calendar a render of /image/hash
\* was made for, as long as nothing else has rewritten the cache).
C32_HashRendersOnlyOnChange ==
    /\ [](last_render.endpoint = "hash" /\ last_render.rendered # "no"
            => RenderNeeded(last_render.before, last_render.calendars))
    /\ [][(image_hash_request /\ last_render.rendered_for = Some(gcal))
            => /\ last_render'.rendered = "no"
               /\ last_render'.status = 200
               /\ last_render'.body = screenshot_cache.hash
               /\ screenshot_cache' = screenshot_cache]_vars

\* A second request in a row, with Google reachable, served from the cache
\* /image/hash had filled for the same events.
C32_Witness ==
    /\ last_render.endpoint = "hash"
    /\ last_render.google = "ok"
    /\ last_render.rendered = "no"
    /\ last_render.rendered_for = Some(gcal)
    /\ last_render.before = screenshot_cache
    /\ last_render.body = screenshot_cache.hash

\* ------------------------------------------------------------------------
\* The white-run signal and the top boundary (CropSpec)
\* ------------------------------------------------------------------------

\* C36: scanning the last min(400, height) rows upwards, the white-run signal
\* fires at the first three consecutive rows that each have at least 90% of
\* their sampled pixels white, and its boundary is the row just above that
\* run, so that the three rows are cut; without such a run the boundary is
\* the height.
C36_WhiteRunBoundary ==
    crop_pc = "crop" =>
        LET white(y) == 10 * (sampled_pixels(img.width) - img.rows[y + 1])
                            >= 9 * sampled_pixels(img.width)
            runs == {y \in ScannedRows(img) :
                        /\ y + required_white_rows - 1 <= Height(img) - 1
                        /\ \A i \in 0..(required_white_rows - 1) : white(y + i)}
        IN  white_run_crop(img) =
                IF runs = {} THEN Height(img) ELSE Maximum(runs)

\* C37: the top boundary is above 0 only when the first three rows are each
\* at least 90% white, every row above it is, and it lies above the bottom
\* boundary.
C37_TopCropOnlyWhiteRun ==
    crop_pc = "crop" =>
        LET white(y) == 10 * (sampled_pixels(img.width) - img.rows[y + 1])
                            >= 9 * sampled_pixels(img.width)
            top == detected[1].top
        IN  /\ top > 0 =>
                   /\ Height(img) >= required_white_rows
                   /\ \A y \in 0..(required_white_rows - 1) : white(y)
            /\ \A y \in 0..(top - 1) : white(y)
            /\ top < detected[1].bottom

\* ------------------------------------------------------------------------
\* image_receiver_server.py: the sync subprocess, /mode/switch and
\* /calendar_sync/trigger (SwitchSpec)
\* ------------------------------------------------------------------------

\* _calendar_sync_process and _calendar_sync_process.poll() is None
poll_is_None_HandleOnly(handle, processes) == handle # None

poll_is_None(handle, processes) ==
    handle # None /\ processes[handle[1]] = "alive"

\* The processes that are running.
Alive == {p \in 1..MaxSpawns : procs[p] = "alive"}

\* The next process Popen would start.
Unstarted == {p \in 1..MaxSpawns : procs[p] = "none"}

\* start_calendar_sync_process, lines 72-129, under _calendar_sync_lock: the
\* handle and the processes after it, what it returned, and the error it
\* recorded.  Popen starts the process or raises.
start_calendar_sync_process(handle, processes) ==
    IF poll_is_None(handle, processes)
    THEN {[handle |-> handle, procs |-> processes, result |-> TRUE]}
    ELSE LET p == CHOOSE q \in Unstarted : \A o \in Unstarted : q <= o
         IN  {[handle |-> Some(p), procs |-> [processes EXCEPT ![p] = "alive"],
               result |-> TRUE],
              [handle |-> handle, procs |-> processes, result |-> FALSE]}

\* stop_calendar_sync_process, lines 131-180, under _calendar_sync_lock.  On
\* the path of lines 176-180 an exception was raised before or after the
\* process ended.
stop_calendar_sync_process(handle, processes) ==
    IF handle = None
    THEN {[handle |-> None, procs |-> processes, result |-> TRUE]}
    ELSE IF processes[handle[1]] # "alive"
    THEN {[handle |-> None, procs |-> processes, result |-> TRUE]}
    ELSE {[handle |-> None, procs |-> [processes EXCEPT ![handle[1]] = "stopped"],
           result |-> TRUE],
          [handle |-> None, procs |-> [processes EXCEPT ![handle[1]] = "stopped"],
           result |-> FALSE],
          [handle |-> None, procs |-> processes, result |-> FALSE]}

SwitchOthersIdle ==
    UNCHANGED <<sync_vars, server_vars, calendar_sync_status, status_up,
                obs_vars, hash_vars, lock_vars, settings_vars, display_vars,
                crop_vars, upload_pc, sync_process, upload_request,
                current_mode, mode_switched, upload_status, uploads, epd_vars,
                log_vars>>

\* switch_mode, lines 507-529: the request is read, the configuration loaded
\* and the mode validated and compared.
switch_mode_load(r) ==
    /\ switches[r].phase \in {"none", "done"}
    /\ \E new_mode \in Modes \cup {"other"} :
        switches' = [switches EXCEPT ![r] =
            IF new_mode \notin Modes
            THEN [phase |-> "done", new_mode |-> new_mode, status |-> 400]
            ELSE IF config_mode = new_mode
            THEN [phase |-> "done", new_mode |-> new_mode, status |-> 200]
            ELSE [phase |-> "loaded", new_mode |-> new_mode, status |-> 0]]
    /\ UNCHANGED <<config_mode, manual_sync_trigger, proc_handle, procs,
                   autostart, trigger_status>>
    /\ SwitchOthersIdle

\* Lines 531-534: save_config.
switch_mode_save(r) ==
    /\ switches[r].phase = "loaded"
    /\ config_mode' = switches[r].new_mode
    /\ switches' = [switches EXCEPT ![r].phase = "saved"]
    /\ UNCHANGED <<manual_sync_trigger, proc_handle, procs, autostart,
                   trigger_status>>
    /\ SwitchOthersIdle

\* Lines 537-539 and 554-572: stop_calendar_sync_process; towards
\* image_receiver the request answers 200 whatever it returned.
switch_mode_stop(r) ==
    /\ switches[r].phase = "saved"
    /\ \E o \in stop_calendar_sync_process(proc_handle, procs) :
        /\ proc_handle' = o.handle
        /\ procs' = o.procs
    /\ switches' = [switches EXCEPT ![r] =
           IF @.new_mode = "calendar_sync"
           THEN [@ EXCEPT !.phase = "stopped"]
           ELSE [@ EXCEPT !.phase = "done", !.status = 200]]
    /\ UNCHANGED <<config_mode, manual_sync_trigger, autostart, trigger_status>>
    /\ SwitchOthersIdle

\* Lines 540-553: start_calendar_sync_process; 200 if it returned True, else
\* 500.
switch_mode_start(r) ==
    /\ switches[r].phase = "stopped"
    /\ Unstarted # {} \/ poll_is_None(proc_handle, procs)
    /\ \E o \in start_calendar_sync_process(proc_handle, procs) :
        /\ proc_handle' = o.handle
        /\ procs' = o.procs
        /\ switches' = [switches EXCEPT ![r].phase = "done",
                                        ![r].status = IF o.result THEN 200 ELSE 500]
    /\ UNCHANGED <<config_mode, manual_sync_trigger, autostart, trigger_status>>
    /\ SwitchOthersIdle

\* Lines 717-726: the thread started at start-up in calendar_sync mode calls
\* start_calendar_sync_process after 2 seconds.
start_sync_delayed ==
    /\ autostart = "pending"
    /\ Unstarted # {} \/ poll_is_None(proc_handle, procs)
    /\ \E o \in start_calendar_sync_process(proc_handle, procs) :
        /\ proc_handle' = o.handle
        /\ procs' = o.procs
    /\ autostart' = "done"
    /\ UNCHANGED <<config_mode, manual_sync_trigger, switches, trigger_status>>
    /\ SwitchOthersIdle

\* The sync process ends by itself.
sync_process_exits ==
    /\ \E p \in Alive : procs' = [procs EXCEPT ![p] = "exited"]
    /\ UNCHANGED <<config_mode, manual_sync_trigger, proc_handle, switches,
                   autostart, trigger_status>>
    /\ SwitchOthersIdle

\* GET or POST /calendar_sync/trigger, lines 630-650.
calendar_sync_trigger ==
    /\ IF ~poll_is_None(proc_handle, procs)
       THEN trigger_status' = 400 /\ UNCHANGED manual_sync_trigger
       ELSE trigger_status' = 200 /\ manual_sync_trigger' = TRUE
    /\ UNCHANGED <<config_mode, proc_handle, procs, switches, autostart>>
    /\ SwitchOthersIdle

\* A running sync process asks /calendar_sync/check_trigger, lines 652-662.
calendar_sync_check_trigger ==
    /\ Alive # {}
    /\ manual_sync_trigger
    /\ manual_sync_trigger' = check_manual_sync_trigger(manual_sync_trigger).flag
    /\ UNCHANGED <<config_mode, proc_handle, procs, switches, autostart,
                   trigger_status>>
    /\ SwitchOthersIdle

\* The receiver has started (lines 712-728): in calendar_sync mode the thread
\* that will start the sync process is waiting.
SwitchInit ==
    /\ SyncIdle
    /\ screenshot_cache = EmptyCache
    /\ calendar_view = "fullcalendar"
    /\ gcal = <<>>
    /\ last_render = NoRender
    /\ HashIdle
    /\ LockIdle
    /\ SettingsIdle
    /\ DisplayIdle
    /\ CropIdle
    /\ EpdIdle
    /\ LogIdle
    /\ upload_pc = "idle"
    /\ config_mode \in Modes
    /\ sync_process = FALSE
    /\ upload_request = None
    /\ current_mode = "image_receiver"
    /\ mode_switched = FALSE
    /\ upload_status = 0
    /\ uploads = 0
    /\ proc_handle = None
    /\ procs = [p \in 1..MaxSpawns |-> "none"]
    /\ switches = [r \in ReqIds |-> NoSwitch]
    /\ autostart = IF config_mode = "calendar_sync" THEN "pending" ELSE "none"
    /\ trigger_status = 0

SwitchNext ==
    \/ \E r \in ReqIds : switch_mode_load(r)
    \/ \E r \in ReqIds : switch_mode_save(r)
    \/ \E r \in ReqIds : switch_mode_stop(r)
    \/ \E r \in ReqIds : switch_mode_start(r)
    \/ start_sync_delayed
    \/ sync_process_exits
    \/ calendar_sync_trigger
    \/ calendar_sync_check_trigger

SwitchSpec == SwitchInit /\ [][SwitchNext]_vars

\* C33: at most one sync process started by the receiver is alive.
C33_AtMostOneSyncProcess == Cardinality(Alive) <= 1

\* No process has ended by itself, no call of stop_calendar_sync_process has
\* left its process running, and the start-up thread is not waiting.
NoStrayProcess ==
    /\ \A p \in 1..MaxSpawns : procs[p] # "exited"
    /\ \A p \in Alive : proc_handle = Some(p)
    /\ autostart # "pending"

\* C34: when every request to /mode/switch that was made has been answered
\* 200, the sync process runs if and only if the mode in config.json is
\* calendar_sync.
C34_ProcessMatchesMode ==
    (/\ \A r \in ReqIds : switches[r].phase \in {"none", "done"}
     /\ \A r \in ReqIds : switches[r].phase = "done" => switches[r].status = 200
     /\ \E r \in ReqIds : switches[r].phase = "done"
     /\ NoStrayProcess)
        => (Alive # {} <=> config_mode = "calendar_sync")

\* C35: /calendar_sync/trigger sets the flag and answers 200 only while the
\* tracked sync process is alive; otherwise it answers 400 and leaves the
\* flag as it was.
C35_TriggerOnlyWhileAlive ==
    [][calendar_sync_trigger =>
          IF proc_handle # None /\ procs[proc_handle[1]] = "alive"
          THEN trigger_status' = 200 /\ manual_sync_trigger'
          ELSE trigger_status' = 400
               /\ manual_sync_trigger' = manual_sync_trigger]_vars

\* A trigger was refused after the sync process it would have reached had
\* ended by itself, its handle still being held.
C35_Witness ==
    /\ trigger_status = 400
    /\ ~manual_sync_trigger
    /\ proc_handle # None
    /\ procs[proc_handle[1]] = "exited"

\* ------------------------------------------------------------------------
\* display_image.py and image.py: the calls display_image makes on the panel
\* driver (EpdSpec)
\* ------------------------------------------------------------------------

\* The runs of display_image that are followed.
MaxRuns == 3

\* The calls of the driver made so far in this run, by name.
Called(name) == {i \in 1..Len(epd_calls) : epd_calls[i].call = name}

EpdOthersIdle ==
    UNCHANGED <<sync_vars, server_vars, manual_sync_trigger,
                calendar_sync_status, status_up, obs_vars, hash_vars,
                lock_vars, settings_vars, display_vars, crop_vars, mode_vars,
                switch_vars, log_vars>>

\* A call of the driver: it returns or raises.
epd_call(name, ok) == epd_calls' = Append(epd_calls, [call |-> name, ok |-> ok])

\* Lines 39-50: the file is looked up; if it exists, the driver is created.
display_image_begin ==
    /\ epd_pc = "idle"
    /\ epd_runs < MaxRuns
    /\ epd_runs' = epd_runs + 1
    /\ epd_calls' = <<>>
    /\ \E exists \in BOOLEAN :
        IF exists
        THEN epd_pc' = "Init" /\ epd_returned' = "none"
        ELSE epd_pc' = "idle" /\ epd_returned' = "False"
    /\ UNCHANGED panel
    /\ EpdOthersIdle

\* Line 52: epd.Init().
epd_Init ==
    /\ epd_pc = "Init"
    /\ \E ok \in BOOLEAN :
        /\ epd_call("Init", ok)
        /\ epd_pc' = IF ok THEN "Clear" ELSE "except"
        /\ panel' = IF ok THEN [panel EXCEPT !.asleep = FALSE] ELSE panel
    /\ UNCHANGED <<epd_returned, epd_runs>>
    /\ EpdOthersIdle

\* Line 54: epd.Clear().
epd_Clear ==
    /\ epd_pc = "Clear"
    /\ \E ok \in BOOLEAN :
        /\ epd_call("Clear", ok)
        /\ epd_pc' = IF ok THEN "process" ELSE "except"
        /\ panel' = IF ok THEN [panel EXCEPT !.shows = "white"] ELSE panel
    /\ UNCHANGED <<epd_returned, epd_runs>>
    /\ EpdOthersIdle

\* Lines 56-206: the image is opened, rotated, resized and converted; any of
\* it may raise.
process_image ==
    /\ epd_pc = "process"
    /\ \E ok \in BOOLEAN : epd_pc' = IF ok THEN "display" ELSE "except"
    /\ UNCHANGED <<epd_calls, epd_returned, epd_runs, panel>>
    /\ EpdOthersIdle

\* Lines 209-210: epd.display(epd.getbuffer(Himage)).
epd_display_buffer ==
    /\ epd_pc = "display"
    /\ \E ok \in BOOLEAN :
        /\ epd_call("display", ok)
        /\ epd_pc' = IF ok THEN "sleep" ELSE "except"
        /\ panel' = IF ok THEN [panel EXCEPT !.shows = "image"] ELSE panel
    /\ UNCHANGED <<epd_returned, epd_runs>>
    /\ EpdOthersIdle

\* Lines 213-214: epd.sleep(), return True.
epd_sleep ==
    /\ epd_pc = "sleep"
    /\ \E ok \in BOOLEAN :
        /\ epd_call("sleep", ok)
        /\ epd_pc' = IF ok THEN "idle" ELSE "except"
        /\ epd_returned' = IF ok THEN "True" ELSE epd_returned
        /\ panel' = IF ok THEN [panel EXCEPT !.asleep = TRUE] ELSE panel
    /\ UNCHANGED epd_runs
    /\ EpdOthersIdle

\* Lines 216-220: except Exception: epd.sleep(), return False.  If this
\* sleep raises, the exception leaves display_image.
epd_except ==
    /\ epd_pc = "except"
    /\ \E ok \in BOOLEAN :
        /\ epd_call("sleep", ok)
        /\ epd_returned' = IF ok THEN "False" ELSE "raised"
        /\ panel' = IF ok THEN [panel EXCEPT !.asleep = TRUE] ELSE panel
    /\ epd_pc' = "idle"
    /\ UNCHANGED epd_runs
    /\ EpdOthersIdle

EpdInit ==
    /\ SyncIdle
    /\ screenshot_cache = EmptyCache
    /\ calendar_view = "fullcalendar"
    /\ gcal = <<>>
    /\ last_render = NoRender
    /\ HashIdle
    /\ MoreIdle

EpdNext ==
    \/ display_image_begin
    \/ epd_Init
    \/ epd_Clear
    \/ process_image
    \/ epd_display_buffer
    \/ epd_sleep
    \/ epd_except

EpdSpec == EpdInit /\ [][EpdNext]_vars

\* C38: when a run of display_image that created the driver has ended, its
\* calls of the driver were made in the order Init, Clear, display, sleep,
\* with display at most once and sleep exactly once, and it returned True if
\* and only if display was called and did not raise.
C38_EpdCycle ==
    (epd_pc = "idle" /\ epd_calls # <<>>) =>
        /\ \A i, j \in 1..Len(epd_calls) :
              i < j => <<epd_calls[i].call, epd_calls[j].call>> \in
                          {<<"Init", "Clear">>, <<"Init", "display">>,
                           <<"Init", "sleep">>, <<"Clear", "display">>,
                           <<"Clear", "sleep">>, <<"display", "sleep">>}
        /\ Cardinality(Called("display")) <= 1
        /\ Cardinality(Called("sleep")) = 1
        /\ epd_returned = "True" <=>
              \E i \in Called("display") : epd_calls[i].ok

\* ------------------------------------------------------------------------
\* calendar_server.py: LogBuffer and /logs (LogSpec)
\* ------------------------------------------------------------------------

\* The largest max_size a LogBuffer is made with.
MaxSize == 3

\* The calls of add_log that are followed.
MaxLogs == 5

\* The largest limit asked for.
MaxLimit == 4

\* The cap of line 667.
logs_cap == 1000

\* buffer[start:], with start as Python's slice takes it: counted from the
\* end when negative, 0 when start is 0 (and -0 is 0), clipped to the list.
slice_from(buffer, start) ==
    LET n == Len(buffer)
        first == IF start < 0 THEN Max(n + start, 0) ELSE Min(start, n)
    IN  SubSeq(buffer, first + 1, n)

\* LogBuffer.get_logs, lines 54-57: self.logs[-limit:].
get_logs(buffer, limit) == slice_from(buffer, 0 - limit)

LogOthersIdle ==
    UNCHANGED <<sync_vars, server_vars, manual_sync_trigger,
                calendar_sync_status, status_up, obs_vars, hash_vars,
                lock_vars, settings_vars, display_vars, crop_vars, mode_vars,
                switch_vars, epd_vars>>

\* LogBuffer.add_log, lines 41-44, under self.lock: the entry is appended,
\* and the oldest one removed if the list is longer than max_size.  Entries
\* are numbered by the order of their insertion.
add_log ==
    /\ log_next < MaxLogs
    /\ log_next' = log_next + 1
    /\ LET appended == Append(logs, log_next + 1)
       IN  logs' = IF Len(appended) > log_max_size
                   THEN Tail(appended)
                   ELSE appended
    /\ UNCHANGED <<log_max_size, log_result, log_limit>>
    /\ LogOthersIdle

\* A call of LogBuffer.get_logs(limit).
get_logs_call ==
    /\ \E limit \in 0..MaxLimit :
        /\ log_limit' = limit
        /\ log_result' = Some(get_logs(logs, limit))
    /\ UNCHANGED <<log_max_size, logs, log_next>>
    /\ LogOthersIdle

\* GET /logs?limit=..., lines 663-672; without the parameter the limit is
\* 100.
logs_route ==
    /\ \E limit \in (0..MaxLimit) \cup {100} :
        /\ log_limit' = Min(limit, logs_cap)
        /\ log_result' = Some(get_logs(logs, Min(limit, logs_cap)))
    /\ UNCHANGED <<log_max_size, logs, log_next>>
    /\ LogOthersIdle

\* LogBuffer.__init__, lines 24-28.
LogInit ==
    /\ SyncIdle
    /\ screenshot_cache = EmptyCache
    /\ calendar_view = "fullcalendar"
    /\ gcal = <<>>
    /\ last_render = NoRender
    /\ HashIdle
    /\ LockIdle
    /\ SettingsIdle
    /\ DisplayIdle
    /\ CropIdle
    /\ ModeIdle
    /\ SwitchIdle
    /\ EpdIdle
    /\ log_max_size \in 1..MaxSize
    /\ logs = <<>>
    /\ log_next = 0
    /\ log_result = None
    /\ log_limit = 0

LogNext ==
    \/ add_log
    \/ get_logs_call
    \/ logs_route

LogSpec == LogInit /\ [][LogNext]_vars

\* The last k entries inserted, in the order of their insertion.
MostRecent(k) == [i \in 1..k |-> log_next - k + i]

\* The buffer holds the most recent entries, at most max_size of them, in
\* the order of their insertion.
RingBuffer == logs = MostRecent(Min(log_next, log_max_size))

\* C40: the buffer holds at most max_size entries, the most recent ones in
\* insertion order, and get_logs(limit) returns the most recent entries of
\* the buffer, at most limit of them, for every limit including 0.
C40_BoundedRingBuffer ==
    /\ [](Len(logs) <= log_max_size /\ RingBuffer)
    /\ [][(get_logs_call \/ logs_route) =>
            /\ Len(log_result'[1]) <= log_limit'
            /\ log_result'[1] = MostRecent(Min(log_limit', Len(logs)))]_vars

=============================================================================
